---- MODULE Spec2Model ----
(***************************************************************************)
(* The client-side interaction controllers of the generated healthcare     *)
(* site: the contact form and its simulated submission, the FAQ accordion, *)
(* the tab group and the card filter/sort engine.  Two generated variants  *)
(* of the script exist; variant "A" is                                     *)
(* src/artifacts/digital-experience-healthcare/main.js and variant "B" is  *)
(* src/unnamed/part_001.  Text values are sequences of one-character       *)
(* strings.                                                                *)
(***************************************************************************)
EXTENDS Integers, Sequences, FiniteSets, TLC

VARIABLES
    variant,        \* which script runs on the page: "A", "B", "C" (toasts), "N" (navigation)
    fieldValue,     \* form: field -> current value of the input
    ariaInvalid,    \* form: field -> "true" | "false" | "absent"
    validationMsg,  \* form: field -> [text, display] of the inline message
    submitDisabled, \* form: submitButton.disabled
    submitLoading,  \* form: submitButton has class "loading"
    submitText,     \* form: text shown on the submit button
    focus,          \* the focused element
    banner,         \* "none" | "success" | "error": the banner displayed
    submitTimers,   \* pending setTimeout callbacks of the submit handler
    analyticsLog,   \* window.analyticsLog
    toastsA,        \* variant A: toasts created by showToast
    toastB,         \* variant B: the single toast element
    toastTimeout,   \* variant B: toastTimeout is pending
    hideTimers,     \* variant B: pending 300 ms hide callbacks
    dismissTimers,  \* part_002: pending auto-dismiss timers of showToast
    lastEvent,      \* the handler that ran last (observation only)
    accStorage,     \* localStorage entry of the accordion: <<>> or <<raw string>>
    accItem,        \* accordion: item -> [expanded, display] of button and panel
    tabSelected,    \* tabs: tab -> aria-selected is "true"
    tabPanelShown,  \* tabs: tab -> its panel has display block
    tabTabindex,    \* tabs: tab -> tabindex attribute of the button
    tabFocus,       \* tabs: the tab button holding focus, 0 when none does
    cardOrder,      \* cards: the service cards in document order
    cardDisplay,    \* cards: card -> it is displayed (style.display is not 'none')
    cardStyleOrder, \* cards: card -> style.order (variant A)
    searchValue,    \* cards: text in the search input
    searchTimer,    \* cards: the debounce timer of the search input is pending
    searchElapsed,  \* cards: ms since the pending debounce timer was set
    chipPressed,    \* cards: chip -> aria-pressed is "true"
    chipActive,     \* cards: chip -> it has class "active"
    activeFilters,  \* cards (A): the array activeFilters refers to, as an index
    filterArrays,   \* cards (A): the arrays created so far for activeFilters
    sortValue,      \* cards: value of the sort dropdown
    currentSort,    \* cards (A): currentSort
    cardSet,        \* cards: which set of service cards the page holds
    engineRan,      \* cards: filterAndSortCards ran in the last step (observation)
    present,        \* the expected elements that the page holds
    storageMode,    \* localStorage: "ok", "unavailable", "throwsOnRead", "throwsOnWrite"
    themePressed,   \* aria-pressed of the theme toggle, which no script writes
    themeStorage,   \* localStorage entry of the theme: <<>> or <<raw string>>
    theme,          \* data-theme of the document element, "absent" when not set
    wired,          \* the controllers whose listeners init() attached
    pageError,      \* "none", or where an error went uncaught
    pageEvent,      \* the page-level step taken last (observation only)
    fnOp,           \* function applied to fnIn: "none" until one is applied
    fnIn,           \* the text handed to formatPhone or to a validator
    fnOut,          \* what the function returned
    debugPanel,     \* debug panel: [exists, display, closeWired, rendered, content]
    nav,            \* mobile navigation: attributes, classes and scroll lock
    navOverlay,     \* mobile navigation: the page holds an overlay element
    innerWidth,     \* window.innerWidth
    resizeTimer,    \* mobile navigation: the 250 ms resize timer is pending
    navEvent        \* mobile navigation: the last event handled

formVars == <<fieldValue, ariaInvalid, validationMsg, submitDisabled, submitLoading,
              submitText, focus, banner, submitTimers, lastEvent>>
toastVars == <<toastsA, toastB, toastTimeout, hideTimers, dismissTimers>>
accVars == <<accStorage, accItem>>
tabVars == <<tabSelected, tabPanelShown, tabTabindex, tabFocus>>
cardVars == <<cardOrder, cardDisplay, cardStyleOrder, searchValue, searchTimer, searchElapsed,
              chipPressed, chipActive, activeFilters, filterArrays, sortValue,
              currentSort, cardSet, engineRan>>
fnVars == <<fnOp, fnIn, fnOut>>
envVars == <<present, storageMode, themePressed>>
pageVars == <<themeStorage, theme, wired, pageError, pageEvent>>
debugVars == <<debugPanel>>
navVars == <<nav, navOverlay, innerWidth, resizeTimer, navEvent>>
vars == <<variant, formVars, analyticsLog, toastVars, accVars, tabVars, cardVars, fnVars,
          envVars, pageVars, debugVars, navVars>>

\* Most submissions (pending or resolved) explored in one behaviour.
MaxSubmits == 2

Variants == {"A", "B"}

-----------------------------------------------------------------------------
(* Text helpers *)

Rep(c, n) == [i \in 1..n |-> c]

IsSpace(c) == c = " "

IsDigit(c) == c \in {"0", "1", "2", "3", "4", "5", "6", "7", "8", "9"}

RECURSIVE trimStart(_)
trimStart(s) ==
    IF s # <<>> /\ IsSpace(Head(s)) THEN trimStart(Tail(s)) ELSE s

RECURSIVE trimEnd(_)
trimEnd(s) ==
    IF s # <<>> /\ IsSpace(s[Len(s)]) THEN trimEnd(SubSeq(s, 1, Len(s) - 1)) ELSE s

trim(s) == trimEnd(trimStart(s))

\* value.replace(/\D/g, '')
digitsOf(s) == SelectSeq(s, IsDigit)

-----------------------------------------------------------------------------
(* Contact form: validators *)

Fields == <<"name", "email", "phone", "message">>
FieldSet == {"name", "email", "phone", "message"}

NoError == ""

validators_name(value) ==
    IF trim(value) = <<>> THEN "Full name is required." ELSE NoError

\* /^[^\s@]+@[^\s@]+\.[^\s@]+$/
emailRegexTest(s) ==
    /\ \A k \in 1..Len(s) : ~IsSpace(s[k])
    /\ Cardinality({k \in 1..Len(s) : s[k] = "@"}) = 1
    /\ \E i \in 2..Len(s) :
          /\ s[i] = "@"
          /\ \E j \in (i + 2)..(Len(s) - 1) : s[j] = "."

validators_email(value) ==
    IF trim(value) = <<>> THEN "Email is required."
    ELSE IF ~emailRegexTest(value) THEN "Please enter a valid email address."
    ELSE NoError

validators_phone(value) ==
    IF trim(value) = <<>> THEN NoError
    ELSE IF Len(digitsOf(value)) # 10 THEN "Phone must be 10 digits."
    ELSE NoError

\* a validator that measures the untrimmed value
validators_message_Untrimmed(value) ==
    IF trim(value) = <<>> THEN "Message is required."
    ELSE IF Len(value) < 20 THEN "Message must be at least 20 characters."
    ELSE IF Len(value) > 1000 THEN "Message must not exceed 1000 characters."
    ELSE NoError

validators_message(value) ==
    IF trim(value) = <<>> THEN "Message is required."
    ELSE IF Len(trim(value)) < 20 THEN "Message must be at least 20 characters."
    ELSE IF Len(trim(value)) > 1000 THEN "Message must not exceed 1000 characters."
    ELSE NoError

validators(key, value) ==
    CASE key = "name" -> validators_name(value)
      [] key = "email" -> validators_email(value)
      [] key = "phone" -> validators_phone(value)
      [] key = "message" -> validators_message(value)

\* a formatter that does not cut the digits at ten
formatPhone_NoCap(value) ==
    LET digits == digitsOf(value)
    IN  IF Len(digits) <= 3 THEN digits
        ELSE IF Len(digits) <= 6
             THEN <<"(">> \o SubSeq(digits, 1, 3) \o <<")", " ">>
                  \o SubSeq(digits, 4, Len(digits))
        ELSE <<"(">> \o SubSeq(digits, 1, 3) \o <<")", " ">>
             \o SubSeq(digits, 4, 6) \o <<"-">> \o SubSeq(digits, 7, Len(digits))

formatPhone(value) ==
    LET all == digitsOf(value)
        digits == SubSeq(all, 1, IF Len(all) < 10 THEN Len(all) ELSE 10)
    IN  IF Len(digits) <= 3 THEN digits
        ELSE IF Len(digits) <= 6
             THEN <<"(">> \o SubSeq(digits, 1, 3) \o <<")", " ">>
                  \o SubSeq(digits, 4, Len(digits))
        ELSE <<"(">> \o SubSeq(digits, 1, 3) \o <<")", " ">>
             \o SubSeq(digits, 4, 6) \o <<"-">> \o SubSeq(digits, 7, Len(digits))

-----------------------------------------------------------------------------
(* Contact form: sample inputs *)

NameValues == {<<>>, <<"J", "o">>}
EmailValues == {<<"j", "@", "e">>, <<"j", "@", "e", ".", "c">>}
PhoneKeystrokes == {<<>>, <<"5", "5", "5", "-", "1">>}
MessageValues == {Rep("x", 19), Rep("x", 20)}

TypedValues(f) ==
    CASE f = "name" -> NameValues
      [] f = "email" -> EmailValues
      [] f = "phone" -> PhoneKeystrokes
      [] f = "message" -> MessageValues

\* the two Math.random() draws of one submit (delay, outcome), in thousandths
RandomDraws == {<<0, 100>>, <<999, 101>>, <<500, 999>>}

DelayBase == 800
DelaySpread == 700

\* 800 + Math.random() * 700, as setTimeout truncates it
submitDelay(r) == DelayBase + (r * DelaySpread) \div 1000

\* Math.random() > 0.1
submitSuccess(r) == r > 100

EmptyForm == [f \in FieldSet |-> <<>>]

OriginalLabel == "Send Message"
LoadingLabel == IF variant = "A" THEN "Sending..." ELSE "Submitting..."

-----------------------------------------------------------------------------
(* Contact form: validation of the rendered fields *)

\* validateField: the aria-invalid attribute it leaves on the field
validateField_aria(value, key) ==
    IF validators(key, value) # NoError THEN "true" ELSE "false"

\* validateField: the inline message it leaves beside the field
validateField_msg(value, key) ==
    [text |-> validators(key, value), display |-> validators(key, value) # NoError]

\* validateField's return value
validateField(value, key) == validators(key, value) = NoError

\* checkFormValidity (A) / the conjunction computed by validateAll (B)
checkFormValidity(values) == \A f \in FieldSet : validateField(values[f], f)

\* form.querySelector('[aria-invalid="true"]'): first match in document order
firstInvalid(aria) ==
    IF \E k \in 1..Len(Fields) : aria[Fields[k]] = "true"
    THEN Fields[CHOOSE k \in 1..Len(Fields) :
                  /\ aria[Fields[k]] = "true"
                  /\ \A m \in 1..(k - 1) : aria[Fields[m]] # "true"]
    ELSE "none"

\* new Date().toISOString(): the time of the call, as a text whose value is
\* left abstract
toISOString == "date-time"

logEvent(log, type, payload) ==
    Append(log, [type |-> type, timestamp |-> toISOString, payload |-> payload])

FormOutcomeTypes == {"form_submit_success", "form_submit_error"}

\* the submissions that have started: resolved (logged) or still pending
submissionsStarted ==
    Len(SelectSeq(analyticsLog, LAMBDA e : e.type \in FormOutcomeTypes)) + Len(submitTimers)

\* variant A: a new toast element with its own 5 s timer
showToastA(toasts, message, type) ==
    Append(toasts, [message |-> message, type |-> type, attached |-> TRUE, timer |-> TRUE])

\* variant B: the single toast element is (re)written and shown
showToastB(message, type) ==
    [message |-> message, type |-> type, visible |-> TRUE, display |-> "block"]

\* src/unnamed/part_002, a third script of which the toast functions are
\* modelled (variant "C"): the single toast element is (re)written and shown;
\* its display style is never written
showToastC(toast, message, type) ==
    [message |-> message, type |-> type, visible |-> TRUE, display |-> toast.display]

ShowToast(message, type) ==
    /\ toastsA' = IF variant = "A" THEN showToastA(toastsA, message, type) ELSE toastsA
    /\ toastB' = CASE variant = "B" -> showToastB(message, type)
                   [] variant = "C" -> showToastC(toastB, message, type)
                   [] OTHER -> toastB
    /\ toastTimeout' = IF variant = "B" THEN TRUE ELSE toastTimeout
    /\ dismissTimers' = IF variant = "C" THEN dismissTimers + 1 ELSE dismissTimers
    /\ UNCHANGED hideTimers

-----------------------------------------------------------------------------
(* Contact form: handlers *)

\* the submit button's state after updateSubmitButton (A) / validateAll (B)
updateSubmitButton(values) == ~checkFormValidity(values)

\* a phone listener that validates what was typed and formats afterwards
InputHandler_ValidatesTyped(f, typed) ==
    LET v == IF f = "phone" THEN formatPhone(typed) ELSE typed
        values == [fieldValue EXCEPT ![f] = v]
        seen == [fieldValue EXCEPT ![f] = typed]
    IN  /\ focus = f
        /\ fieldValue' = values
        /\ ariaInvalid' = [g \in FieldSet |-> validateField_aria(seen[g], g)]
        /\ validationMsg' = [g \in FieldSet |-> validateField_msg(seen[g], g)]
        /\ submitDisabled' = updateSubmitButton(seen)
        /\ lastEvent' = "edit"
        /\ UNCHANGED <<variant, submitLoading, submitText, focus, banner, submitTimers,
                       analyticsLog, toastVars>>

\* 'input' listener of field f; the phone listener formats first
InputHandler(f, typed) ==
    LET v == IF f = "phone" THEN formatPhone(typed) ELSE typed
        values == [fieldValue EXCEPT ![f] = v]
    IN  /\ focus = f
        /\ fieldValue' = values
        /\ ariaInvalid' = [g \in FieldSet |-> validateField_aria(values[g], g)]
        /\ validationMsg' = [g \in FieldSet |-> validateField_msg(values[g], g)]
        /\ submitDisabled' = updateSubmitButton(values)
        /\ lastEvent' = "edit"
        /\ UNCHANGED <<variant, submitLoading, submitText, focus, banner, submitTimers,
                       analyticsLog, toastVars>>

\* 'blur' listener of field f: A validates the field, B also runs validateAll
BlurEffect(f) ==
    IF variant = "A"
    THEN /\ ariaInvalid' = [ariaInvalid EXCEPT ![f] = validateField_aria(fieldValue[f], f)]
         /\ validationMsg' = [validationMsg EXCEPT ![f] = validateField_msg(fieldValue[f], f)]
         /\ UNCHANGED submitDisabled
    ELSE /\ ariaInvalid' = [g \in FieldSet |-> validateField_aria(fieldValue[g], g)]
         /\ validationMsg' = [g \in FieldSet |-> validateField_msg(fieldValue[g], g)]
         /\ submitDisabled' = updateSubmitButton(fieldValue)

\* the user moves focus to another element; the field that loses it gets 'blur'
FocusChange(target) ==
    /\ target # focus
    /\ focus' = target
    /\ IF focus \in FieldSet
       THEN BlurEffect(focus)
       ELSE UNCHANGED <<ariaInvalid, validationMsg, submitDisabled>>
    /\ lastEvent' = "edit"
    /\ UNCHANGED <<variant, fieldValue, submitLoading, submitText, banner, submitTimers,
                   analyticsLog, toastVars>>

\* SubmitHandler whose invalid branch leaves focus where it is
SubmitHandler_KeepsFocus(r1, r2) ==
    /\ ~submitDisabled
    /\ submissionsStarted < MaxSubmits
    /\ ariaInvalid' = [g \in FieldSet |-> validateField_aria(fieldValue[g], g)]
    /\ validationMsg' = [g \in FieldSet |-> validateField_msg(fieldValue[g], g)]
    /\ IF ~checkFormValidity(fieldValue)
       THEN /\ submitDisabled' = IF variant = "B" THEN TRUE ELSE submitDisabled
            /\ lastEvent' = "submit_invalid"
            /\ UNCHANGED <<focus, submitLoading, submitText, submitTimers>>
       ELSE /\ submitDisabled' = TRUE
            /\ submitLoading' = TRUE
            /\ submitText' = LoadingLabel
            /\ submitTimers' = Append(submitTimers,
                                      [delay |-> submitDelay(r1),
                                       success |-> submitSuccess(r2),
                                       originalText |-> submitText])
            /\ lastEvent' = "submit"
            /\ UNCHANGED focus
    /\ UNCHANGED <<variant, fieldValue, banner, analyticsLog, toastVars>>

\* 'submit' listener; the browser raises submit only through an enabled button
SubmitHandler(r1, r2) ==
    /\ ~submitDisabled
    /\ submissionsStarted < MaxSubmits
    /\ ariaInvalid' = [g \in FieldSet |-> validateField_aria(fieldValue[g], g)]
    /\ validationMsg' = [g \in FieldSet |-> validateField_msg(fieldValue[g], g)]
    /\ IF ~checkFormValidity(fieldValue)
       THEN /\ focus' = IF firstInvalid(ariaInvalid') # "none"
                        THEN firstInvalid(ariaInvalid') ELSE focus
            /\ submitDisabled' = IF variant = "B" THEN TRUE ELSE submitDisabled
            /\ lastEvent' = "submit_invalid"
            /\ UNCHANGED <<submitLoading, submitText, submitTimers>>
       ELSE /\ submitDisabled' = TRUE
            /\ submitLoading' = TRUE
            /\ submitText' = LoadingLabel
            /\ submitTimers' = Append(submitTimers,
                                      [delay |-> submitDelay(r1),
                                       success |-> submitSuccess(r2),
                                       originalText |-> submitText])
            /\ lastEvent' = "submit"
            /\ UNCHANGED focus
    /\ UNCHANGED <<variant, fieldValue, banner, analyticsLog, toastVars>>

RemoveAt(seq, i) == SubSeq(seq, 1, i - 1) \o SubSeq(seq, i + 1, Len(seq))

\* OutcomeSuccess without form.reset(): the values stay in the fields
OutcomeSuccess_NoReset ==
    /\ analyticsLog' = logEvent(analyticsLog, "form_submit_success",
                                << <<"name", fieldValue["name"]>>,
                                   <<"email", fieldValue["email"]>> >>)
    /\ ShowToast("Your message has been sent successfully!", "success")
    /\ banner' = "success"
    /\ focus' = "name"
    /\ submitDisabled' = IF variant = "A" THEN updateSubmitButton(fieldValue) ELSE TRUE
    /\ lastEvent' = "success"
    /\ UNCHANGED <<fieldValue, ariaInvalid, validationMsg>>

\* the success branch of the timer callback
OutcomeSuccess ==
    /\ analyticsLog' = logEvent(analyticsLog, "form_submit_success",
                                << <<"name", fieldValue["name"]>>,
                                   <<"email", fieldValue["email"]>> >>)
    /\ ShowToast("Your message has been sent successfully!", "success")
    /\ banner' = "success"
    /\ fieldValue' = EmptyForm
    /\ focus' = "name"
    /\ IF variant = "A"
       THEN /\ ariaInvalid' = [g \in FieldSet |-> validateField_aria(EmptyForm[g], g)]
            /\ validationMsg' = [g \in FieldSet |-> validateField_msg(EmptyForm[g], g)]
            /\ submitDisabled' = updateSubmitButton(EmptyForm)
       ELSE IF focus \in FieldSet \ {"name"}
            \* fullnameField.focus() takes focus from another field, whose
            \* 'blur' listener runs validateAll over the emptied form
            THEN /\ ariaInvalid' = [g \in FieldSet |-> validateField_aria(EmptyForm[g], g)]
                 /\ validationMsg' = [g \in FieldSet |-> validateField_msg(EmptyForm[g], g)]
                 /\ submitDisabled' = updateSubmitButton(EmptyForm)
            ELSE /\ ariaInvalid' = [g \in FieldSet |-> "absent"]
                 /\ validationMsg' = [g \in FieldSet |->
                                        [validationMsg[g] EXCEPT !.display = FALSE]]
                 /\ submitDisabled' = TRUE
    /\ lastEvent' = "success"

\* OutcomeFailure without the final submitButton.disabled = false
OutcomeFailure_StaysDisabled ==
    /\ analyticsLog' = logEvent(analyticsLog, "form_submit_error", <<>>)
    /\ ShowToast("Failed to send message. Please try again.", "error")
    /\ banner' = "error"
    /\ focus' = IF firstInvalid(ariaInvalid) # "none" THEN firstInvalid(ariaInvalid)
                ELSE IF variant = "B" THEN "name" ELSE focus
    /\ lastEvent' = "failure"
    /\ UNCHANGED <<fieldValue, ariaInvalid, validationMsg, submitDisabled>>

\* the failure branch of the timer callback
OutcomeFailure ==
    /\ analyticsLog' = logEvent(analyticsLog, "form_submit_error",
                                IF variant = "A"
                                THEN << <<"reason", <<"simulated_failure">> >> >>
                                ELSE <<>>)
    /\ ShowToast(IF variant = "A" THEN "Failed to send message. Please try again."
                 ELSE "There was an error submitting your message. Please try again.",
                 "error")
    /\ banner' = "error"
    /\ focus' = IF firstInvalid(ariaInvalid) # "none" THEN firstInvalid(ariaInvalid)
                ELSE IF variant = "B" THEN "name" ELSE focus
    /\ submitDisabled' = FALSE
    /\ lastEvent' = "failure"
    /\ UNCHANGED <<fieldValue, ariaInvalid, validationMsg>>

\* the setTimeout callback of submission i fires
OutcomeTimer(i) ==
    /\ i \in 1..Len(submitTimers)
    /\ submitTimers' = RemoveAt(submitTimers, i)
    /\ submitLoading' = FALSE
    /\ submitText' = submitTimers[i].originalText
    /\ IF submitTimers[i].success THEN OutcomeSuccess ELSE OutcomeFailure
    /\ UNCHANGED variant

-----------------------------------------------------------------------------
(* Persistent storage values *)

\* String(index)
String(n) ==
    CASE n = 0 -> "0" [] n = 1 -> "1" [] n = 2 -> "2" [] n = 3 -> "3" [] n = 4 -> "4"
      [] n = 5 -> "5" [] n = 6 -> "6" [] n = 7 -> "7" [] n = 8 -> "8" [] n = 9 -> "9"

\* JavaScript values that reach storage: <<"null", "">> or <<"string", s>>
JsNull == <<"null", "">>
JsString(s) == <<"string", s>>

JSON_stringify(v) == IF v = JsNull THEN "null" ELSE "\"" \o v[2] \o "\""

\* JSON.parse over the texts the page can meet; <<"throws", "">> when malformed
JSON_parse(raw, strings) ==
    IF raw = "null" THEN JsNull
    ELSE IF \E t \in strings : JSON_stringify(JsString(t)) = raw
         THEN JsString(CHOOSE t \in strings : JSON_stringify(JsString(t)) = raw)
    ELSE <<"throws", "">>

\* getLocalStorage(key, fallback): absent, or a text that does not parse, is fallback
getLocalStorage(entry, fallback, strings) ==
    IF entry = <<>> THEN fallback
    ELSE IF JSON_parse(entry[1], strings)[1] = "throws" THEN fallback
    ELSE JSON_parse(entry[1], strings)

\* setLocalStorage(key, value)
setLocalStorage(v) == <<JSON_stringify(v)>>

-----------------------------------------------------------------------------
(* Page bootstrap: init() over the elements the page holds *)

\* the elements the controllers look up
Elements ==
    {"theme-toggle", "back-to-top", "navbar", "skip-to-content", "cta",
     "search-input", "filter-chip", "sort-dropdown", "faq-item", "faq-button",
     "faq-panel", "tab-button", "tab-panel", "contact-form", "input-name",
     "input-email", "input-phone", "input-message", "submit-button",
     "skeleton-loader", "debug-panel"}

StorageModes == {"ok", "unavailable", "throwsOnRead", "throwsOnWrite"}
readThrows == storageMode \in {"unavailable", "throwsOnRead"}
writeThrows == storageMode \in {"unavailable", "throwsOnWrite"}

\* init(): the controllers in the order it calls them
InitOrder ==
    IF variant = "A"
    THEN <<"theme", "backToTop", "smoothScroll", "navbar", "search", "filterChips",
           "sortDropdown", "faq", "tabs", "contactForm", "skeleton", "debugPanel">>
    ELSE <<"theme", "backToTop", "skipToContent", "ctaLinks", "search", "filterChips",
           "sortDropdown", "faq", "tabs", "contactForm", "skeleton", "debugPanel",
           "navbar", "smoothScroll">>

Has(el) == el \in present

\* a tab controller that takes the first tab without looking for one
controllerStatus_TabsUnguarded(c) ==
    CASE c = "theme" ->
           IF ~Has("theme-toggle") THEN "skipped"
           ELSE IF variant = "B" /\ readThrows THEN "throws"
           ELSE "wired"
      [] c = "backToTop" -> IF Has("back-to-top") THEN "wired" ELSE "skipped"
      [] c = "smoothScroll" -> "wired"
      [] c = "navbar" -> IF Has("navbar") THEN "wired" ELSE "skipped"
      [] c = "skipToContent" -> IF Has("skip-to-content") THEN "wired" ELSE "skipped"
      [] c = "ctaLinks" -> IF Has("cta") THEN "wired" ELSE "skipped"
      [] c = "search" -> IF Has("search-input") THEN "wired" ELSE "skipped"
      [] c = "filterChips" -> IF Has("filter-chip") THEN "wired" ELSE "skipped"
      [] c = "sortDropdown" -> IF Has("sort-dropdown") THEN "wired" ELSE "skipped"
      [] c = "faq" ->
           IF ~Has("faq-item") THEN "skipped"
           ELSE IF variant = "B" /\ readThrows THEN "throws"
           ELSE IF Has("faq-button") /\ Has("faq-panel") THEN "wired"
           ELSE "skipped"
      [] c = "tabs" -> IF Has("tab-button") /\ Has("tab-panel") THEN "wired" ELSE "throws"
      [] c = "contactForm" ->
           IF ~Has("contact-form") THEN "skipped"
           ELSE IF variant = "A" THEN "wired"
           ELSE IF Has("input-name") /\ Has("input-email") /\ Has("input-message")
                   /\ Has("submit-button")
                THEN "wired"
           ELSE "skipped"
      [] c = "skeleton" -> IF Has("skeleton-loader") THEN "wired" ELSE "skipped"
      [] c = "debugPanel" -> "wired"

\* what one controller's init function does: "wired" (listeners attached),
\* "skipped" (it returned without wiring) or "throws" (an error left it)
controllerStatus(c) ==
    CASE c = "theme" ->
           IF ~Has("theme-toggle") THEN "skipped"
           ELSE IF variant = "B" /\ readThrows THEN "throws"
           ELSE "wired"
      [] c = "backToTop" -> IF Has("back-to-top") THEN "wired" ELSE "skipped"
      [] c = "smoothScroll" -> "wired"
      [] c = "navbar" -> IF Has("navbar") THEN "wired" ELSE "skipped"
      [] c = "skipToContent" -> IF Has("skip-to-content") THEN "wired" ELSE "skipped"
      [] c = "ctaLinks" -> IF Has("cta") THEN "wired" ELSE "skipped"
      [] c = "search" -> IF Has("search-input") THEN "wired" ELSE "skipped"
      [] c = "filterChips" -> IF Has("filter-chip") THEN "wired" ELSE "skipped"
      [] c = "sortDropdown" -> IF Has("sort-dropdown") THEN "wired" ELSE "skipped"
      [] c = "faq" ->
           IF ~Has("faq-item") THEN "skipped"
           ELSE IF variant = "B" /\ readThrows THEN "throws"
           ELSE IF Has("faq-button") /\ Has("faq-panel") THEN "wired"
           ELSE "skipped"
      [] c = "tabs" -> IF Has("tab-button") /\ Has("tab-panel") THEN "wired" ELSE "skipped"
      [] c = "contactForm" ->
           IF ~Has("contact-form") THEN "skipped"
           ELSE IF variant = "A" THEN "wired"
           ELSE IF Has("input-name") /\ Has("input-email") /\ Has("input-message")
                   /\ Has("submit-button")
                THEN "wired"
           ELSE "skipped"
      [] c = "skeleton" -> IF Has("skeleton-loader") THEN "wired" ELSE "skipped"
      [] c = "debugPanel" -> "wired"

\* the status of each controller of init(), in call order
bootStatus == [k \in 1..Len(InitOrder) |-> controllerStatus(InitOrder[k])]

\* the first controller that throws, 0 when none does
firstThrow(status) ==
    LET thrown == {k \in 1..Len(status) : status[k] = "throws"}
    IN  IF thrown = {} THEN 0 ELSE CHOOSE k \in thrown : \A j \in thrown : k <= j

\* init() stops at the first controller that throws
bootWired ==
    LET status == bootStatus
        stop == firstThrow(status)
    IN  {InitOrder[k] : k \in {j \in 1..Len(status) :
                                  status[j] = "wired" /\ (stop = 0 \/ j < stop)}}
bootError ==
    LET stop == firstThrow(bootStatus)
    IN  IF stop = 0 THEN "none" ELSE InitOrder[stop]

-----------------------------------------------------------------------------
(* Theme toggle *)

\* Most analytics records of theme toggles explored in one behaviour.
MaxPageEvents == 3

\* texts found under the key 'theme' when the page loads
ThemeTexts == {"light", "dark", "{bad", "null", JSON_stringify(JsString("light")),
               JSON_stringify(JsString("dark"))}
ThemeEntries == {<<>>} \cup {<<t>> : t \in ThemeTexts}
ThemeNames == {"light", "dark"}

\* the string setAttribute('data-theme', v) leaves for a JavaScript value
attributeText(v) == IF v = JsNull THEN "null" ELSE v[2]

\* initThemeToggle: the theme it applies; the markup sets none
bootTheme ==
    IF "theme" \notin bootWired THEN "absent"
    ELSE IF variant = "A"
         THEN IF readThrows THEN "light"
              ELSE attributeText(getLocalStorage(themeStorage, JsString("light"), ThemeNames))
    ELSE IF themeStorage = <<>> \/ themeStorage[1] = "" THEN "light"
    ELSE themeStorage[1]

\* a toggle that applies the theme and stores nothing
ThemeToggleClick_NoStore ==
    LET current == IF variant = "A" /\ theme \in {"", "absent"} THEN "light" ELSE theme
        next == IF current = "light" THEN "dark" ELSE "light"
    IN  /\ "theme" \in wired
        /\ Len(analyticsLog) < MaxPageEvents
        /\ theme' = next
        /\ pageEvent' = "themeClick"
        /\ analyticsLog' = logEvent(analyticsLog, "theme_toggle", << <<"theme", <<next>> >> >>)
        /\ UNCHANGED <<themeStorage, pageError, wired, accVars, tabVars>>

\* click listener of the theme toggle
ThemeToggle ==
    LET current == IF variant = "A" /\ theme \in {"", "absent"} THEN "light" ELSE theme
        next == IF current = "light" THEN "dark" ELSE "light"
    IN  /\ "theme" \in wired
        /\ theme' = next
        /\ pageEvent' = "themeClick"
        /\ IF variant = "A"
           THEN /\ themeStorage' = IF writeThrows THEN themeStorage
                                   ELSE setLocalStorage(JsString(next))
                /\ analyticsLog' = logEvent(analyticsLog, "theme_toggle",
                                            << <<"theme", <<next>> >> >>)
                /\ UNCHANGED pageError
           ELSE IF writeThrows
                THEN /\ pageError' = "themeClick"
                     /\ UNCHANGED <<themeStorage, analyticsLog>>
                ELSE /\ themeStorage' = <<next>>
                     /\ analyticsLog' = logEvent(analyticsLog, "theme_toggle",
                                                 << <<"theme", <<next>> >> >>)
                     /\ UNCHANGED pageError
        /\ UNCHANGED <<wired, accVars, tabVars>>

\* a click on the theme toggle, while the log is short
ThemeToggleClick ==
    /\ Len(analyticsLog) < MaxPageEvents
    /\ ThemeToggle

-----------------------------------------------------------------------------
(* Call-to-action links *)

CtaTargets == {"services", "contact"}

\* click on a call-to-action link: B's initCTALinks logs it, A has no listener
CtaClick(target) ==
    /\ Has("cta")
    /\ Len(analyticsLog) < MaxPageEvents
    /\ pageEvent' = "ctaClick"
    /\ analyticsLog' = IF variant = "B" /\ "ctaLinks" \in wired
                       THEN logEvent(analyticsLog, "cta_click",
                                     << <<"target", <<target>> >> >>)
                       ELSE analyticsLog
    /\ UNCHANGED <<themeStorage, theme, wired, pageError, accVars, tabVars>>

-----------------------------------------------------------------------------
(* FAQ accordion *)

\* FAQ items on the page
NumItems == 3
Items == 1..NumItems

\* A: data-faq-id of item i;  B: String(index) of item i (index from 0)
faqId(i) == "faq-" \o String(i)
faqIndex(i) == String(i - 1)

\* texts found under the accordion's key when the page loads
StoredTextsA ==
    {"null", "{bad", "faq-1", JSON_stringify(JsString("faq-9"))}
    \cup {JSON_stringify(JsString(faqId(i))) : i \in Items}
StoredTextsB == {"x", "-1", "9"} \cup {faqIndex(i) : i \in Items}
StoredEntries ==
    {<<>>} \cup {<<t>> : t \in IF variant = "A" THEN StoredTextsA ELSE StoredTextsB}

KnownIds == {faqId(i) : i \in Items} \cup {"faq-9"}

\* the item the stored entry names: the 'Restore state' comparison
\* a restore that opens the first item whatever is stored
isSaved_FirstItem(entry, i) == entry # <<>> /\ i = 1

isSaved(entry, i) ==
    IF variant = "A"
    THEN ~readThrows /\ getLocalStorage(entry, JsNull, KnownIds) = JsString(faqId(i))
    ELSE entry # <<>> /\ entry[1] = faqIndex(i)

Opened == [expanded |-> TRUE, display |-> "block"]
Closed == [expanded |-> FALSE, display |-> "none"]

\* initFaqAccordion / initFAQAccordion: each item restored from the stored entry
\* (items the controller never reaches stay as the markup has them: closed)
bootAccItems ==
    [i \in Items |-> IF "faq" \in bootWired /\ isSaved(accStorage, i) THEN Opened ELSE Closed]

InitAccordion == accItem = bootAccItems

\* the entry the click listener leaves in storage
storedAfterClick(i, isExpanded) ==
    IF variant = "A"
    THEN setLocalStorage(IF isExpanded THEN JsNull ELSE JsString(faqId(i)))
    ELSE IF isExpanded THEN <<>> ELSE <<faqIndex(i)>>

\* what a click leaves in storage and in the page's error state; B calls
\* localStorage in the listener without a try
AccordionClickStore(i, isExpanded) ==
    /\ accStorage' = IF writeThrows THEN accStorage ELSE storedAfterClick(i, isExpanded)
    /\ pageError' = IF variant = "B" /\ writeThrows THEN "accordionClick" ELSE pageError
    /\ pageEvent' = "accordionClick"
    /\ UNCHANGED <<themeStorage, theme, wired, analyticsLog>>

\* a click that re-opens whatever item was expanded: 'Close all' left out
AccordionClick_NoCloseAll(i) ==
    /\ "faq" \in wired
    /\ accItem' = [accItem EXCEPT ![i] = IF accItem[i].expanded THEN Closed ELSE Opened]
    /\ AccordionClickStore(i, accItem[i].expanded)
    /\ UNCHANGED tabVars

\* a click that stores the clicked item also when it closes it
AccordionClick_StoresOnClose(i) ==
    LET closedAll == [j \in Items |-> Closed]
    IN  /\ "faq" \in wired
        /\ accItem' = [closedAll EXCEPT ![i] = IF accItem[i].expanded THEN Closed ELSE Opened]
        /\ AccordionClickStore(i, FALSE)
        /\ UNCHANGED tabVars

\* a click that opens the clicked item also when it was the open one
AccordionClick_NeverCloses(i) ==
    LET closedAll == [j \in Items |-> Closed]
    IN  /\ "faq" \in wired
        /\ accItem' = [closedAll EXCEPT ![i] = Opened]
        /\ AccordionClickStore(i, accItem[i].expanded)
        /\ UNCHANGED tabVars

\* click listener of item i's button
AccordionClick(i) ==
    LET isExpanded == accItem[i].expanded
        closedAll == [j \in Items |-> Closed]
    IN  /\ "faq" \in wired
        /\ accItem' = [closedAll EXCEPT ![i] = IF isExpanded THEN Closed ELSE Opened]
        /\ AccordionClickStore(i, isExpanded)
        /\ UNCHANGED tabVars

-----------------------------------------------------------------------------
(* Tabs *)

\* tab buttons, each with its panel
NumTabs == 4
Tabs == 1..NumTabs

TabKeys == {"ArrowRight", "ArrowLeft", "ArrowDown", "ArrowUp", "Home", "End", "Enter"}

\* activateTab(tabs[target]): the state it leaves on buttons and panels
activateTab_selected(target) == [t \in Tabs |-> t = target]
activateTab_tabindex(target) == [t \in Tabs |-> IF t = target THEN "0" ELSE "-1"]

\* A: the markup shows the first tab (nothing is set by the script);
\* B: initTabs ends with activateTab(tabs[0]), which also focuses the button
bootTabindex ==
    IF variant = "B" /\ "tabs" \in bootWired THEN activateTab_tabindex(1)
    ELSE [t \in Tabs |-> "absent"]
bootTabFocus == IF variant = "B" /\ "tabs" \in bootWired THEN 1 ELSE 0

InitTabs ==
    /\ tabSelected = activateTab_selected(1)
    /\ tabPanelShown = activateTab_selected(1)
    /\ tabTabindex = bootTabindex
    /\ tabFocus = bootTabFocus

\* a click listener that shows the target panel without hiding the others
TabClick_NoHide(t) ==
    /\ "tabs" \in wired
    /\ pageEvent' = "tabClick"
    /\ tabSelected' = activateTab_selected(t)
    /\ tabPanelShown' = [tabPanelShown EXCEPT ![t] = TRUE]
    /\ tabTabindex' = IF variant = "A" THEN tabTabindex ELSE activateTab_tabindex(t)
    /\ tabFocus' = t
    /\ UNCHANGED <<accVars, themeStorage, theme, wired, pageError, analyticsLog>>

\* click listener of tab t (the click also gives the button focus)
TabClick(t) ==
    /\ "tabs" \in wired
    /\ pageEvent' = "tabClick"
    /\ tabSelected' = activateTab_selected(t)
    /\ tabPanelShown' = activateTab_selected(t)
    /\ tabTabindex' = IF variant = "A" THEN tabTabindex ELSE activateTab_tabindex(t)
    /\ tabFocus' = t
    /\ UNCHANGED <<accVars, themeStorage, theme, wired, pageError, analyticsLog>>

\* B's keydown listener: the tab a key leads to from tab index t, 0 when ignored
keyTarget(t, key) ==
    CASE key = "ArrowRight" -> ((t - 1 + 1) % NumTabs) + 1
      [] key = "ArrowLeft" -> ((t - 1 - 1 + NumTabs) % NumTabs) + 1
      [] key = "Home" -> 1
      [] key = "End" -> NumTabs
      [] OTHER -> 0

\* a key pressed on the focused tab button; A registers no keydown listener
TabKeydown(key) ==
    /\ tabFocus \in Tabs
    /\ pageEvent' = "key:" \o key
    /\ IF variant = "B" /\ keyTarget(tabFocus, key) # 0
       THEN /\ tabSelected' = activateTab_selected(keyTarget(tabFocus, key))
            /\ tabPanelShown' = activateTab_selected(keyTarget(tabFocus, key))
            /\ tabTabindex' = activateTab_tabindex(keyTarget(tabFocus, key))
            /\ tabFocus' = keyTarget(tabFocus, key)
       ELSE UNCHANGED tabVars
    /\ UNCHANGED <<accVars, themeStorage, theme, wired, pageError, analyticsLog>>

\* focus leaves the tab list
TabBlur ==
    /\ tabFocus \in Tabs
    /\ tabFocus' = 0
    /\ pageEvent' = "tabBlur"
    /\ UNCHANGED <<accVars, tabSelected, tabPanelShown, tabTabindex, themeStorage, theme,
                   wired, pageError, analyticsLog>>

-----------------------------------------------------------------------------
(* Service cards: text comparison *)

\* String.prototype.toLowerCase over the letters used on the page
UpperCase == <<"A", "B", "C", "D", "E", "F", "G", "H", "I", "J", "K", "L", "M", "N", "O", "P", "Q", "R", "S", "T", "U", "V", "W", "X", "Y", "Z">>
LowerCase == <<"a", "b", "c", "d", "e", "f", "g", "h", "i", "j", "k", "l", "m", "n", "o", "p", "q", "r", "s", "t", "u", "v", "w", "x", "y", "z">>

LowerOf ==
    [c \in {UpperCase[k] : k \in 1..Len(UpperCase)} |->
        LowerCase[CHOOSE k \in 1..Len(UpperCase) : UpperCase[k] = c]]

toLowerChar(c) == IF c \in DOMAIN LowerOf THEN LowerOf[c] ELSE c

toLowerCase(s) == [i \in 1..Len(s) |-> toLowerChar(s[i])]

IsUpper(c) == toLowerChar(c) # c

\* String.prototype.includes
includes(s, q) == \E i \in 0..(Len(s) - Len(q)) : SubSeq(s, i + 1, i + Len(q)) = q

CollationOrder == <<" ">> \o LowerCase
RankOf ==
    [c \in {CollationOrder[r] : r \in 1..Len(CollationOrder)} |->
        CHOOSE r \in 1..Len(CollationOrder) : CollationOrder[r] = c]
CharRank(c) == RankOf[toLowerChar(c)]

\* lexicographic comparison of two sequences of numbers: -1, 0 or 1
compareKeys(ka, kb) ==
    LET n == IF Len(ka) < Len(kb) THEN Len(ka) ELSE Len(kb)
        diff == {i \in 1..n : ka[i] # kb[i]}
        first == CHOOSE i \in diff : \A j \in diff : i <= j
    IN  IF diff # {} THEN (IF ka[first] < kb[first] THEN -1 ELSE 1)
        ELSE IF Len(ka) < Len(kb) THEN -1
        ELSE IF Len(ka) > Len(kb) THEN 1
        ELSE 0

\* String.prototype.localeCompare: letters first, then lower case before upper
localeCompare(a, b) ==
    LET primary == compareKeys([i \in 1..Len(a) |-> CharRank(a[i])],
                               [i \in 1..Len(b) |-> CharRank(b[i])])
    IN  IF primary # 0 THEN primary
        ELSE compareKeys([i \in 1..Len(a) |-> IF IsUpper(a[i]) THEN 1 ELSE 0],
                         [i \in 1..Len(b) |-> IF IsUpper(b[i]) THEN 1 ELSE 0])

-----------------------------------------------------------------------------
(* Service cards: filter and sort *)

\* Most analytics records of card interactions explored in one behaviour.
MaxCardEvents == 3

\* the cards of the page as loaded: title, description, data-tags split at ','
SampleCards ==
    << [title |-> <<"b">>, description |-> <<"x", "k">>,
        tags |-> << <<"k">> >>, popularity |-> 2],
       [title |-> <<"A">>, description |-> <<"x">>,
        tags |-> << <<"h">>, <<" ", "k">> >>, popularity |-> 2],
       [title |-> <<"a">>, description |-> <<"y">>,
        tags |-> << <<"h">> >>, popularity |-> 1] >>
\* a directory of eight services, one of them titled "Pediatric Care"
DirectoryCards ==
    << [title |-> <<"P", "e", "d", "i", "a", "t", "r", "i", "c", " ", "C", "a", "r", "e">>,
        description |-> <<"k", "i", "d", "s">>,
        tags |-> << <<"k">> >>, popularity |-> 8],
       [title |-> <<"D", "e", "n", "t", "a", "l">>,
        description |-> <<"t", "e", "e", "t", "h">>,
        tags |-> << <<"h">> >>, popularity |-> 7],
       [title |-> <<"C", "a", "r", "d", "i", "o", "l", "o", "g", "y">>,
        description |-> <<"h", "e", "a", "r", "t">>,
        tags |-> << <<"k">> >>, popularity |-> 6],
       [title |-> <<"P", "r", "i", "m", "a", "r", "y", " ", "C", "a", "r", "e">>,
        description |-> <<"f", "a", "m", "i", "l", "y">>,
        tags |-> << <<"h">> >>, popularity |-> 5],
       [title |-> <<"U", "r", "g", "e", "n", "t", " ", "C", "a", "r", "e">>,
        description |-> <<"w", "a", "l", "k", " ", "i", "n">>,
        tags |-> << <<"k">> >>, popularity |-> 4],
       [title |-> <<"R", "a", "d", "i", "o", "l", "o", "g", "y">>,
        description |-> <<"s", "c", "a", "n", "s">>,
        tags |-> << <<"h">> >>, popularity |-> 3],
       [title |-> <<"P", "h", "a", "r", "m", "a", "c", "y">>,
        description |-> <<"r", "e", "f", "i", "l", "l", "s">>,
        tags |-> << <<"k">> >>, popularity |-> 2],
       [title |-> <<"L", "a", "b", " ", "T", "e", "s", "t", "s">>,
        description |-> <<"b", "l", "o", "o", "d">>,
        tags |-> << <<"h">> >>, popularity |-> 1] >>

\* the same directory, the description of "Pediatric Care" naming pediatrics
DirectoryCardsNamed ==
    [DirectoryCards EXCEPT ![1].description = <<"P", "e", "d", "i", "a", "t", "r", "i", "c", "s", " ", "f", "o", "r", " ", "k", "i", "d", "s">>]

CardSets == {"sample", "directory", "directory-named"}

ServiceCards ==
    CASE cardSet = "sample" -> SampleCards
      [] cardSet = "directory" -> DirectoryCards
      [] cardSet = "directory-named" -> DirectoryCardsNamed

Cards == 1..Len(ServiceCards)
OriginalOrder == [i \in Cards |-> i]

\* the filter chips: data-filter (read by A) and text (read by B)
FilterChips ==
    << [filter |-> <<"k">>, text |-> <<"K">>],
       [filter |-> <<"h">>, text |-> <<" ", "H">>] >>
Chips == 1..Len(FilterChips)

Pediatrics == <<"P", "e", "d", "i", "a", "t", "r", "i", "c", "s">>
Pediatric == <<"P", "e", "d", "i", "a", "t", "r", "i", "c">>

SearchValues ==
    IF cardSet = "sample" THEN {<<>>, <<"A">>, <<"x", " ">>}
    ELSE {<<>>, Pediatrics, Pediatric}
SortValues == {"alphabetical", "popularity"}

HiddenOrder == 9999

Member(seq, x) == \E k \in 1..Len(seq) : seq[k] = x
IndexOf(seq, x) == CHOOSE k \in 1..Len(seq) : seq[k] = x

\* the tags of a card as the filter reads them
cardTags(c) ==
    LET parts == ServiceCards[c].tags
    IN  IF variant = "A" THEN [k \in 1..Len(parts) |-> trim(parts[k])]
        ELSE [k \in 1..Len(parts) |-> trim(toLowerCase(parts[k]))]

\* the active tags the filter uses: A's activeFilters array, B's active chips
activeTags(arrays, ref, active) ==
    IF variant = "A" THEN arrays[ref]
    ELSE LET on == SelectSeq([k \in Chips |-> k], LAMBDA k : active[k])
         IN  [k \in 1..Len(on) |-> toLowerCase(trim(FilterChips[on[k]].text))]

\* a search that looks at the title only
matchesSearch_TitleOnly(c, query) ==
    \/ query = <<>>
    \/ includes(toLowerCase(ServiceCards[c].title), query)

matchesSearch(c, query) ==
    \/ query = <<>>
    \/ includes(toLowerCase(ServiceCards[c].title), query)
    \/ includes(toLowerCase(ServiceCards[c].description), query)

\* a filter that demands every active tag of the card
matchesFilter_Every(c, tags) ==
    \A k \in 1..Len(tags) : Member(cardTags(c), tags[k])

matchesFilter(c, tags) ==
    \/ Len(tags) = 0
    \/ \E k \in 1..Len(tags) : Member(cardTags(c), tags[k])

\* the comparator handed to Array.prototype.sort
compareCards(a, b, sort) ==
    CASE sort = "alphabetical" ->
           IF variant = "A"
           THEN localeCompare(toLowerCase(ServiceCards[a].title),
                              toLowerCase(ServiceCards[b].title))
           ELSE localeCompare(trim(ServiceCards[a].title), trim(ServiceCards[b].title))
      [] sort = "popularity" -> ServiceCards[b].popularity - ServiceCards[a].popularity
      [] OTHER -> 0

RECURSIVE insertCard(_, _, _)
insertCard(sorted, c, sort) ==
    IF sorted = <<>> THEN <<c>>
    ELSE IF compareCards(Head(sorted), c, sort) <= 0
         THEN <<Head(sorted)>> \o insertCard(Tail(sorted), c, sort)
    ELSE <<c>> \o sorted

\* Array.prototype.sort: stable
RECURSIVE sortCards(_, _)
sortCards(seq, sort) ==
    IF seq = <<>> THEN <<>>
    ELSE insertCard(sortCards(SubSeq(seq, 1, Len(seq) - 1), sort), seq[Len(seq)], sort)

\* filterAndSortCards over the cards in document order `order`: the document
\* order, display and style.order it leaves
filterAndSortCards(order, search, tags, sort) ==
    LET query == trim(toLowerCase(search))
        visibleCards == SelectSeq(order, LAMBDA c : matchesSearch(c, query)
                                                     /\ matchesFilter(c, tags))
        sorted == sortCards(visibleCards, sort)
    IN  IF variant = "A"
        THEN [order |-> order,
              display |-> [c \in Cards |-> Member(sorted, c)],
              styleOrder |-> [c \in Cards |-> IF Member(sorted, c)
                                              THEN IndexOf(sorted, c) - 1
                                              ELSE HiddenOrder]]
        ELSE [order |-> IF Len(visibleCards) > 1
                        THEN SelectSeq(order, LAMBDA c : ~Member(visibleCards, c)) \o sorted
                        ELSE order,
              display |-> [c \in Cards |-> Member(visibleCards, c)],
              styleOrder |-> cardStyleOrder]

RECURSIVE insertByOrder(_, _, _)
insertByOrder(placed, c, styleOrder) ==
    IF placed = <<>> THEN <<c>>
    ELSE IF styleOrder[Head(placed)] <= styleOrder[c]
         THEN <<Head(placed)>> \o insertByOrder(Tail(placed), c, styleOrder)
    ELSE <<c>> \o placed

RECURSIVE placeByOrder(_, _)
placeByOrder(seq, styleOrder) ==
    IF seq = <<>> THEN <<>>
    ELSE insertByOrder(placeByOrder(SubSeq(seq, 1, Len(seq) - 1), styleOrder),
                       seq[Len(seq)], styleOrder)

\* the cards the page shows, in the order it shows them: the displayed cards
\* by style.order, cards of equal style.order in document order
shownCards(order, display, styleOrder) ==
    placeByOrder(SelectSeq(order, LAMBDA c : display[c]), styleOrder)

\* the handlers call filterAndSortCards after they have updated their state
EngineRun ==
    LET r == filterAndSortCards(cardOrder, searchValue',
                                activeTags(filterArrays', activeFilters', chipActive'),
                                IF variant = "A" THEN currentSort' ELSE sortValue')
    IN  /\ cardOrder' = r.order
        /\ cardDisplay' = r.display
        /\ cardStyleOrder' = r.styleOrder
        /\ engineRan' = TRUE
        /\ UNCHANGED cardSet

\* debounce(fn, 250): the delay of the search box
DebounceDelay == 250

\* the steps in which time is seen to pass while a timer is pending
TickMs == DebounceDelay \div 2

\* a keystroke that leaves a pending timer running: no clearTimeout
SearchInput_NoCancel(v) ==
    /\ v # searchValue
    /\ searchValue' = v
    /\ searchTimer' = TRUE
    /\ searchElapsed' = IF searchTimer THEN searchElapsed ELSE 0
    /\ engineRan' = FALSE
    /\ UNCHANGED <<cardSet, cardOrder, cardDisplay, cardStyleOrder, chipPressed, chipActive,
                   activeFilters, filterArrays, sortValue, currentSort, analyticsLog>>

\* 'input' listener of the search box: clearTimeout(timer), then
\* timer = setTimeout(..., 250)
SearchInput(v) ==
    /\ v # searchValue
    /\ searchValue' = v
    /\ searchTimer' = TRUE
    /\ searchElapsed' = 0
    /\ engineRan' = FALSE
    /\ UNCHANGED <<cardSet, cardOrder, cardDisplay, cardStyleOrder, chipPressed, chipActive,
                   activeFilters, filterArrays, sortValue, currentSort, analyticsLog>>

\* the debounce timer fires: handleSearch / debouncedSearch
SearchTimerFire ==
    /\ searchTimer
    /\ searchElapsed >= DebounceDelay
    /\ Len(analyticsLog) < MaxCardEvents
    /\ searchTimer' = FALSE
    /\ searchElapsed' = 0
    /\ analyticsLog' = logEvent(analyticsLog, "search",
                                << <<"query", trim(toLowerCase(searchValue))>> >>)
    /\ UNCHANGED <<searchValue, chipPressed, chipActive, activeFilters, filterArrays,
                   sortValue, currentSort>>
    /\ EngineRun

\* a chip listener that pushes the tag on every click and never removes it
ChipClick_PushAlways(ch) ==
    /\ Len(analyticsLog) < MaxCardEvents
    /\ IF variant = "A"
       THEN LET tag == FilterChips[ch].filter
                isActive == chipPressed[ch]
            IN  /\ chipPressed' = [chipPressed EXCEPT ![ch] = ~isActive]
                /\ chipActive' = [chipActive EXCEPT ![ch] = ~chipActive[ch]]
                /\ filterArrays' = [filterArrays EXCEPT ![activeFilters] = Append(@, tag)]
                /\ activeFilters' = activeFilters
                /\ analyticsLog' = logEvent(analyticsLog, "filter_change",
                                      << <<"filters", <<"ref", String(activeFilters')>> >> >>)
       ELSE /\ chipActive' = [chipActive EXCEPT ![ch] = ~chipActive[ch]]
            /\ chipPressed' = [chipPressed EXCEPT ![ch] = ~chipActive[ch]]
            /\ analyticsLog' = logEvent(analyticsLog, "filter_change",
                                        << <<"tag", trim(FilterChips[ch].text)>> >>)
            /\ UNCHANGED <<activeFilters, filterArrays>>
    /\ UNCHANGED <<searchValue, searchTimer, searchElapsed, sortValue, currentSort>>
    /\ EngineRun

\* click listener of chip ch
ChipClick(ch) ==
    /\ Len(analyticsLog) < MaxCardEvents
    /\ IF variant = "A"
       THEN LET tag == FilterChips[ch].filter
                isActive == chipPressed[ch]
            IN  /\ chipPressed' = [chipPressed EXCEPT ![ch] = ~isActive]
                /\ chipActive' = [chipActive EXCEPT ![ch] = ~chipActive[ch]]
                /\ IF isActive
                   THEN /\ filterArrays' = Append(filterArrays,
                               SelectSeq(filterArrays[activeFilters], LAMBDA f : f # tag))
                        /\ activeFilters' = Len(filterArrays) + 1
                   ELSE /\ filterArrays' = [filterArrays EXCEPT
                                              ![activeFilters] = Append(@, tag)]
                        /\ activeFilters' = activeFilters
                /\ analyticsLog' = logEvent(analyticsLog, "filter_change",
                                      << <<"filters", <<"ref", String(activeFilters')>> >> >>)
       ELSE /\ chipActive' = [chipActive EXCEPT ![ch] = ~chipActive[ch]]
            /\ chipPressed' = [chipPressed EXCEPT ![ch] = ~chipActive[ch]]
            /\ analyticsLog' = logEvent(analyticsLog, "filter_change",
                                        << <<"tag", trim(FilterChips[ch].text)>> >>)
            /\ UNCHANGED <<activeFilters, filterArrays>>
    /\ UNCHANGED <<searchValue, searchTimer, searchElapsed, sortValue, currentSort>>
    /\ EngineRun

\* 'change' listener of the sort dropdown
SortChange(v) ==
    /\ v # sortValue
    /\ Len(analyticsLog) < MaxCardEvents
    /\ sortValue' = v
    /\ currentSort' = IF variant = "A" THEN v ELSE currentSort
    /\ analyticsLog' = logEvent(analyticsLog, "sort_change",
                                << <<IF variant = "A" THEN "sort" ELSE "value", <<v>> >> >>)
    /\ UNCHANGED <<searchValue, searchTimer, searchElapsed, chipPressed, chipActive,
                   activeFilters, filterArrays>>
    /\ EngineRun

\* time passes while the debounce timer is pending and not yet due
SearchTick ==
    /\ searchTimer
    /\ searchElapsed < DebounceDelay
    /\ searchElapsed' = searchElapsed + TickMs
    /\ engineRan' = FALSE
    /\ UNCHANGED <<cardSet, cardOrder, cardDisplay, cardStyleOrder, searchValue, searchTimer,
                   chipPressed, chipActive, activeFilters, filterArrays, sortValue,
                   currentSort, analyticsLog>>

\* the page as loaded: nothing filtered, the engine not yet run
InitCards ==
    /\ cardOrder = OriginalOrder
    /\ cardDisplay = [c \in Cards |-> TRUE]
    /\ cardStyleOrder = [c \in Cards |-> 0]
    /\ searchValue = <<>>
    /\ searchTimer = FALSE
    /\ searchElapsed = 0
    /\ chipPressed = [ch \in Chips |-> FALSE]
    /\ chipActive = [ch \in Chips |-> FALSE]
    /\ activeFilters = 1
    /\ filterArrays = << <<>> >>
    /\ sortValue = "alphabetical"
    /\ currentSort = "alphabetical"
    /\ engineRan = FALSE

\* initContactForm, and the page_load record that B's init() appends last
\* the fields initContactForm validates at load: those of a wired form
validatedAtLoad(g) == "contactForm" \in bootWired /\ Has("input-" \o g)

InitForm ==
    /\ fieldValue = EmptyForm
    /\ ariaInvalid = [g \in FieldSet |-> IF validatedAtLoad(g)
                                         THEN validateField_aria(EmptyForm[g], g)
                                         ELSE "absent"]
    /\ validationMsg = [g \in FieldSet |-> IF validatedAtLoad(g)
                                           THEN validateField_msg(EmptyForm[g], g)
                                           ELSE [text |-> "", display |-> FALSE]]
    /\ submitDisabled = (/\ "contactForm" \in bootWired
                         /\ Has("submit-button")
                         /\ \E g \in FieldSet : /\ validatedAtLoad(g)
                                                 /\ ~validateField(EmptyForm[g], g))
    /\ submitLoading = FALSE
    /\ submitText = OriginalLabel
    /\ focus = "none"
    /\ banner = "none"
    /\ submitTimers = <<>>
    /\ lastEvent = "init"

InitToast ==
    /\ toastsA = <<>>
    /\ toastB = [message |-> "", type |-> "", visible |-> FALSE, display |-> "absent"]
    /\ toastTimeout = FALSE
    /\ hideTimers = 0
    /\ dismissTimers = 0

bootLog ==
    IF variant = "B" /\ bootError = "none"
    THEN logEvent(<<>>, "page_load", << <<"url", <<"href">> >> >>)
    ELSE <<>>

InitLog == analyticsLog = bootLog

\* aria-pressed of the theme toggle as the markup delivers it
bootThemePressed == IF Has("theme-toggle") THEN "false" ELSE "absent"

InitPage ==
    /\ theme = bootTheme
    /\ themePressed = bootThemePressed
    /\ wired = bootWired
    /\ pageError = bootError
    /\ pageEvent = "init"

-----------------------------------------------------------------------------
(* Mobile navigation of the travel microsite (variant "N") *)

\* width from which the layout is the desktop one
Breakpoint == 768

Widths == {375, Breakpoint - 1, Breakpoint, 1024}

\* a page without the navigation elements
NoNav == [expanded |-> "absent", hidden |-> "absent", open |-> FALSE,
          overlayVisible |-> FALSE, overflow |-> "", toggleFocused |-> FALSE]

\* the closed menu as the markup may deliver it, with or without the two attributes
NavMarkups ==
    {[NoNav EXCEPT !.expanded = x, !.hidden = h] : x \in {"absent", "false"},
                                                   h \in {"absent", "true"}}

InitNav ==
    /\ nav \in (IF variant = "N" THEN NavMarkups ELSE {NoNav})
    /\ navOverlay \in (IF variant = "N" THEN BOOLEAN ELSE {FALSE})
    /\ innerWidth \in (IF variant = "N" THEN Widths ELSE {1024})
    /\ resizeTimer = FALSE
    /\ navEvent = "init"

openNav(n) ==
    [n EXCEPT !.hidden = "false", !.open = TRUE, !.expanded = "true",
              !.overlayVisible = navOverlay, !.overflow = "hidden"]

\* a closeNav that leaves the page locked
closeNav_KeepsLock(n) ==
    [n EXCEPT !.hidden = "true", !.open = FALSE, !.expanded = "false",
              !.overlayVisible = FALSE]

closeNav(n) ==
    [n EXCEPT !.hidden = "true", !.open = FALSE, !.expanded = "false",
              !.overlayVisible = FALSE, !.overflow = ""]

toggleNav(n) == IF n.expanded = "true" THEN closeNav(n) ELSE openNav(n)

\* click on the toggle button, which takes the focus
NavToggleClick ==
    /\ variant = "N"
    /\ nav' = [toggleNav(nav) EXCEPT !.toggleFocused = TRUE]
    /\ navEvent' = "toggle"
    /\ UNCHANGED <<navOverlay, innerWidth, resizeTimer>>

\* click on the overlay
NavOverlayClick ==
    /\ variant = "N"
    /\ navOverlay
    /\ nav' = [closeNav(nav) EXCEPT !.toggleFocused = FALSE]
    /\ navEvent' = "overlay"
    /\ UNCHANGED <<navOverlay, innerWidth, resizeTimer>>

\* keydown Escape
NavEscape ==
    /\ variant = "N"
    /\ nav' = IF nav.expanded = "true"
              THEN [closeNav(nav) EXCEPT !.toggleFocused = TRUE]
              ELSE nav
    /\ navEvent' = "escape"
    /\ UNCHANGED <<navOverlay, innerWidth, resizeTimer>>

\* the window is resized to width w: the timer is set anew
NavResize(w) ==
    /\ variant = "N"
    /\ w # innerWidth
    /\ innerWidth' = w
    /\ resizeTimer' = TRUE
    /\ navEvent' = "resize"
    /\ UNCHANGED <<nav, navOverlay>>

\* the resize timer fires
NavResizeTimer ==
    /\ variant = "N"
    /\ resizeTimer
    /\ resizeTimer' = FALSE
    /\ nav' = IF innerWidth >= Breakpoint THEN closeNav(nav) ELSE nav
    /\ navEvent' = "resizeTimer"
    /\ UNCHANGED <<navOverlay, innerWidth>>

\* initDebugPanel: A creates a missing panel at load, hidden and with a
\* close listener; B creates it on the first toggle; a panel found in the
\* markup carries no inline display and gets no close listener
bootDebugPanel ==
    LET found == [exists |-> TRUE, display |-> "", closeWired |-> FALSE,
                  rendered |-> FALSE, content |-> <<>>]
        created == [exists |-> TRUE, display |-> "none", closeWired |-> TRUE,
                    rendered |-> FALSE, content |-> <<>>]
        none == [exists |-> FALSE, display |-> "", closeWired |-> FALSE,
                 rendered |-> FALSE, content |-> <<>>]
    IN  IF Has("debug-panel") THEN found
        ELSE IF variant = "A" /\ "debugPanel" \in bootWired THEN created
        ELSE none

InitDebug == debugPanel = bootDebugPanel

\* the state init() leaves, given the elements and the storage of the page
BootedPage ==
    /\ InitForm
    /\ InitToast
    /\ InitLog
    /\ InitAccordion
    /\ InitTabs
    /\ InitCards
    /\ InitPage
    /\ InitDebug
    /\ InitNav

\* the page is loaded again with the storage as it is; taken from a page
\* whose form and cards are as loaded
PageReload ==
    /\ InitForm /\ InitToast /\ InitCards /\ InitDebug
    /\ theme' = bootTheme
    /\ wired' = bootWired
    /\ pageError' = bootError
    /\ pageEvent' = "reload"
    /\ accItem' = bootAccItems
    /\ tabSelected' = activateTab_selected(1)
    /\ tabPanelShown' = activateTab_selected(1)
    /\ tabTabindex' = bootTabindex
    /\ tabFocus' = bootTabFocus
    /\ analyticsLog' = bootLog
    /\ UNCHANGED <<themeStorage, accStorage>>

-----------------------------------------------------------------------------
(* Debug panel (Ctrl+Shift+D) *)

\* Longest analytics log while the debug panel is used.
MaxLogged == 22

\* records the panel lists at most
DebugLimit == 20

\* Array.prototype.slice(start) with a negative start: a copy of the last -start items
slice(arr, start) ==
    LET from == IF Len(arr) + start < 0 THEN 0 ELSE Len(arr) + start
    IN  SubSeq(arr, from + 1, Len(arr))

\* Array.prototype.reverse
reverse(arr) == [k \in 1..Len(arr) |-> arr[Len(arr) - k + 1]]

\* what the panel prints of one record: type, time and payload
debugEntry(evt) == <<evt.type, evt.timestamp, evt.payload>>

\* a panel that lists the oldest records
updateDebugPanel_Oldest(panel, log) ==
    LET events == reverse(SubSeq(log, 1, IF Len(log) < DebugLimit THEN Len(log) ELSE DebugLimit))
    IN  [panel EXCEPT !.rendered = TRUE,
                      !.content = [k \in 1..Len(events) |-> debugEntry(events[k])]]

updateDebugPanel(panel, log) ==
    LET events == reverse(slice(log, 0 - DebugLimit))
    IN  [panel EXCEPT !.rendered = TRUE,
                      !.content = [k \in 1..Len(events) |-> debugEntry(events[k])]]

\* keydown Ctrl+Shift+D
DebugToggle ==
    /\ "debugPanel" \in wired
    /\ IF variant = "A"
       THEN LET isVisible == debugPanel.display # "none"
            IN  debugPanel' =
                  IF isVisible THEN [debugPanel EXCEPT !.display = "none"]
                  ELSE updateDebugPanel([debugPanel EXCEPT !.display = "block"], analyticsLog)
       ELSE LET panel == IF debugPanel.exists THEN debugPanel
                         ELSE [exists |-> TRUE, display |-> "", closeWired |-> TRUE,
                               rendered |-> FALSE, content |-> <<>>]
            IN  debugPanel' =
                  IF panel.display \in {"none", ""}
                  THEN updateDebugPanel([panel EXCEPT !.display = "block"], analyticsLog)
                  ELSE [panel EXCEPT !.display = "none"]
    /\ pageEvent' = "debugToggle"
    /\ UNCHANGED <<themeStorage, theme, wired, pageError, analyticsLog, accVars, tabVars>>

\* click on the close button of a panel the script created
DebugCloseClick ==
    /\ debugPanel.exists /\ debugPanel.closeWired
    /\ debugPanel.display = "block"
    /\ debugPanel' = [debugPanel EXCEPT !.display = "none"]
    /\ pageEvent' = "debugClose"
    /\ UNCHANGED <<themeStorage, theme, wired, pageError, analyticsLog, accVars, tabVars>>

-----------------------------------------------------------------------------
(* Toasts: show calls, countdown, manual dismissal *)

\* Most toasts created (A) or timers left pending (B, part_002) in one behaviour.
MaxToasts == 3

ToastCalls == {<<"Your message has been sent successfully!", "success">>,
               <<"Failed to send message. Please try again.", "error">>}

\* the form state a toast step leaves alone
formFields == <<fieldValue, ariaInvalid, validationMsg, submitDisabled, submitLoading,
                submitText, focus, banner, submitTimers>>

\* a call showToast(message, type) with the default duration
ToastShow(message, type) ==
    /\ CASE variant = "A" -> Len(toastsA) < MaxToasts
         [] variant = "B" -> TRUE
         [] variant = "C" -> dismissTimers < MaxToasts
    /\ ShowToast(message, type)
    /\ lastEvent' = "toastShow"

\* B's hideToast(): the class goes at once, display 300 ms later
hideToast ==
    /\ toastB' = [toastB EXCEPT !.visible = FALSE]
    /\ hideTimers' = hideTimers + 1
    /\ toastTimeout' = FALSE

\* the 5 s countdown of a toast expires
ToastExpire ==
    /\ CASE variant = "A" ->
              \* equal durations: the timers fire in the order they were set
              \E i \in 1..Len(toastsA) :
                 /\ toastsA[i].timer
                 /\ \A k \in 1..(i - 1) : ~toastsA[k].timer
                 /\ toastsA' = [toastsA EXCEPT ![i] = [@ EXCEPT !.timer = FALSE,
                                                                !.attached = FALSE]]
                 /\ UNCHANGED <<toastB, toastTimeout, hideTimers, dismissTimers>>
         [] variant = "B" ->
              /\ toastTimeout
              /\ hideTimers < MaxToasts
              /\ hideToast
              /\ UNCHANGED <<toastsA, dismissTimers>>
         [] variant = "C" ->
              /\ dismissTimers > 0
              /\ dismissTimers' = dismissTimers - 1
              /\ toastB' = [toastB EXCEPT !.visible = FALSE]
              /\ UNCHANGED <<toastsA, toastTimeout, hideTimers>>
    /\ lastEvent' = "toastExpire"

\* the user dismisses a toast that is on screen: A and B by the close
\* button, part_002 by a click on the toast
ToastClose ==
    /\ CASE variant = "A" ->
              \E i \in 1..Len(toastsA) :
                 /\ toastsA[i].attached
                 /\ toastsA' = [toastsA EXCEPT ![i] = [@ EXCEPT !.attached = FALSE]]
                 /\ UNCHANGED <<toastB, toastTimeout, hideTimers, dismissTimers>>
         [] variant = "B" ->
              /\ toastB.visible /\ toastB.display = "block"
              /\ hideTimers < MaxToasts
              /\ hideToast
              /\ UNCHANGED <<toastsA, dismissTimers>>
         [] variant = "C" ->
              /\ toastB.visible
              \* clearTimeout(timeoutId) of the last show call, then dismissToast
              /\ dismissTimers' = IF dismissTimers > 0 THEN dismissTimers - 1 ELSE 0
              /\ toastB' = [toastB EXCEPT !.visible = FALSE]
              /\ UNCHANGED <<toastsA, toastTimeout, hideTimers>>
    /\ lastEvent' = "toastClose"

\* B: a 300 ms callback of hideToast runs
ToastHideDelay ==
    /\ variant = "B"
    /\ hideTimers > 0
    /\ hideTimers' = hideTimers - 1
    /\ toastB' = [toastB EXCEPT !.display = "none"]
    /\ lastEvent' = "toastHide"
    /\ UNCHANGED <<toastsA, toastTimeout, dismissTimers>>

-----------------------------------------------------------------------------
(* formatPhone and the validators applied to sample texts *)

\* Most digits in a sample phone text, and most blanks around a sample message.
MaxDigits == 12
MaxPad == 2

DigitChars == {"0", "1", "2", "3", "4", "5", "6", "7", "8", "9"}

\* n digits 1 2 3 ... 9 0 1 2 ..., with the text sep put after the first p
digitRun(n, p, sep) ==
    [i \in 1..p |-> String(i % 10)] \o sep \o [i \in 1..(n - p) |-> String((p + i) % 10)]

PhoneSeparators == {<<>>, <<"-">>, <<"(", " ">>}
PhoneInputs ==
    {digitRun(x[1], x[2], sep) :
        x \in {y \in (0..MaxDigits) \X {0, 3, 6, 10} : y[2] <= y[1]},
        sep \in PhoneSeparators}

\* messages at the length boundaries, blanks around them
MessageLengths == {0, 1, 19, 20, 21, 999, 1000, 1001}
MessageInputs ==
    {Rep(" ", a) \o Rep("x", n) \o Rep(" ", b) :
        n \in MessageLengths, a \in 0..MaxPad, b \in 0..MaxPad}
    \cup {<<"x">> \o Rep(" ", 18) \o <<"x">>, <<"x">> \o Rep(" ", 17) \o <<"x">>}

InitFn ==
    /\ fnOp = "none"
    /\ fnIn = <<>>
    /\ fnOut = <<>>

\* the phone input listener formats what was typed
ApplyFormatPhone ==
    /\ fnOp = "none"
    /\ fnOp' = "formatPhone"
    /\ fnOut' = formatPhone(fnIn)
    /\ UNCHANGED fnIn

\* validateField hands the message to its validator
ApplyMessageValidator ==
    /\ fnOp = "none"
    /\ fnOp' = "validators.message"
    /\ fnOut' = validators("message", fnIn)
    /\ UNCHANGED fnIn

FnInit ==
    /\ variant \in Variants
    /\ present = Elements
    /\ storageMode = "ok"
    /\ themeStorage = <<>>
    /\ accStorage = <<>>
    /\ cardSet = "sample"
    /\ BootedPage
    /\ fnOp = "none"
    /\ fnIn \in PhoneInputs \cup MessageInputs
    /\ fnOut = <<>>

FnNext ==
    /\ \/ fnIn \in PhoneInputs /\ ApplyFormatPhone
       \/ fnIn \in MessageInputs /\ ApplyMessageValidator
    /\ UNCHANGED <<variant, formVars, analyticsLog, toastVars, accVars, tabVars, cardVars,
                   envVars, pageVars, debugVars, navVars>>

FnSpec == FnInit /\ [][FnNext]_vars

\* init(): every element present, storage working and empty
Init ==
    /\ variant \in Variants
    /\ present = Elements
    /\ storageMode = "ok"
    /\ themeStorage = <<>>
    /\ accStorage = <<>>
    /\ cardSet = "sample"
    /\ BootedPage
    /\ InitFn

FocusTargets == FieldSet \cup {"submit"}

FormNext ==
    /\ \/ \E f \in FieldSet : \E typed \in TypedValues(f) : InputHandler(f, typed)
       \/ \E target \in FocusTargets : FocusChange(target)
       \/ \E r \in RandomDraws : SubmitHandler(r[1], r[2])
       \/ \E i \in 1..Len(submitTimers) : OutcomeTimer(i)
    /\ UNCHANGED <<accVars, tabVars, cardVars, fnVars, envVars, pageVars, debugVars,
                   navVars>>

FormSpec == Init /\ [][FormNext]_vars

\* an outcome timer fires; the browser runs every timer that is due
FormOutcome ==
    /\ \E i \in 1..Len(submitTimers) : OutcomeTimer(i)
    /\ UNCHANGED <<accVars, tabVars, cardVars, fnVars, envVars, pageVars, debugVars,
                   navVars>>

FormLiveSpec == Init /\ [][FormNext]_vars /\ WF_vars(FormOutcome)

\* the page loads with any text stored under the theme's and the accordion's key
WidgetInit ==
    /\ variant \in Variants
    /\ present = Elements
    /\ storageMode = "ok"
    /\ themeStorage \in ThemeEntries
    /\ accStorage \in StoredEntries
    /\ cardSet = "sample"
    /\ BootedPage
    /\ InitFn

WidgetNext ==
    /\ \/ \E i \in Items : AccordionClick(i)
       \/ ThemeToggleClick
       \/ \E target \in CtaTargets : CtaClick(target)
       \/ PageReload
       \/ \E t \in Tabs : TabClick(t)
       \/ \E key \in TabKeys : TabKeydown(key)
       \/ TabBlur
    /\ UNCHANGED <<variant, formVars, toastVars, cardVars, fnVars, envVars, debugVars,
                   navVars>>

WidgetSpec == WidgetInit /\ [][WidgetNext]_vars

\* the page loads with its storage in any condition
StorageInit ==
    /\ variant \in Variants
    /\ present = Elements
    /\ storageMode \in StorageModes
    /\ themeStorage \in ThemeEntries
    /\ accStorage \in StoredEntries
    /\ cardSet = "sample"
    /\ BootedPage
    /\ InitFn

StorageNext ==
    /\ \/ \E i \in Items : AccordionClick(i)
       \/ ThemeToggleClick
       \/ PageReload
    /\ UNCHANGED <<variant, formVars, toastVars, cardVars, fnVars, envVars, debugVars,
                   navVars>>

StorageSpec == StorageInit /\ [][StorageNext]_vars

\* Most expected elements missing from a page.
MaxMissing == 2

ElementSubsets == {Elements \ m : m \in {x \in SUBSET Elements : Cardinality(x) <= MaxMissing}}

\* the page loads with some of its expected elements missing
BootInit ==
    /\ variant \in Variants
    /\ present \in ElementSubsets
    /\ storageMode = "ok"
    /\ themeStorage = <<>>
    /\ accStorage = <<>>
    /\ cardSet = "sample"
    /\ BootedPage
    /\ InitFn

BootNext ==
    /\ \/ \E i \in Items : AccordionClick(i)
       \/ ThemeToggleClick
       \/ PageReload
    /\ UNCHANGED <<variant, formVars, toastVars, cardVars, fnVars, envVars, debugVars,
                   navVars>>

BootSpec == BootInit /\ [][BootNext]_vars

\* what is typed into the phone field: nothing, a letter, five digits with a
\* dash, ten digits
PhoneEvents ==
    {<<>>, <<"a">>, <<"5", "5", "5", "-", "1">>,
     <<"5", "5", "5", "1", "2", "3", "4", "5", "6", "7">>}

PhoneTyped(f) ==
    CASE f = "name" -> NameValues
      [] f = "email" -> {<<"j", "@", "e", ".", "c">>}
      [] f = "message" -> {Rep("x", 20)}
      [] f = "phone" -> PhoneEvents

\* the form with the phone field typed into
PhoneNext ==
    /\ \/ \E f \in FieldSet : \E typed \in PhoneTyped(f) : InputHandler(f, typed)
       \/ \E target \in FocusTargets : FocusChange(target)
       \/ \E r \in RandomDraws : SubmitHandler(r[1], r[2])
       \/ \E i \in 1..Len(submitTimers) : OutcomeTimer(i)
    /\ UNCHANGED <<accVars, tabVars, cardVars, fnVars, envVars, pageVars, debugVars,
                   navVars>>

PhoneSpec == Init /\ [][PhoneNext]_vars

ToastVariants == {"A", "B", "C"}

\* toasts alone, for the three scripts; of part_002 nothing else is modelled
ToastInit ==
    /\ variant \in ToastVariants
    /\ present = Elements
    /\ storageMode = "ok"
    /\ themeStorage = <<>>
    /\ accStorage = <<>>
    /\ cardSet = "sample"
    /\ BootedPage
    /\ InitFn

ToastNext ==
    /\ \/ \E c \in ToastCalls : ToastShow(c[1], c[2])
       \/ ToastExpire
       \/ ToastClose
       \/ ToastHideDelay
    /\ UNCHANGED <<variant, formFields, analyticsLog, accVars, tabVars, cardVars, fnVars,
                   envVars, pageVars, debugVars, navVars>>

ToastSpec == ToastInit /\ [][ToastNext]_vars

\* a page with or without a debug panel in its markup
DebugInit ==
    /\ variant \in Variants
    /\ present \in {Elements, Elements \ {"debug-panel"}}
    /\ storageMode = "ok"
    /\ themeStorage = <<>>
    /\ accStorage = <<>>
    /\ cardSet = "sample"
    /\ BootedPage
    /\ InitFn

DebugNext ==
    /\ \/ Len(analyticsLog) < MaxLogged /\ ThemeToggle /\ UNCHANGED debugVars
       \/ DebugToggle
       \/ DebugCloseClick
    /\ UNCHANGED <<variant, formVars, toastVars, cardVars, fnVars, envVars, navVars>>

DebugSpec == DebugInit /\ [][DebugNext]_vars

\* the travel microsite with its navigation; nothing else of it is modelled
NavInit ==
    /\ variant = "N"
    /\ present = Elements
    /\ storageMode = "ok"
    /\ themeStorage = <<>>
    /\ accStorage = <<>>
    /\ cardSet = "sample"
    /\ BootedPage
    /\ InitFn

NavNext ==
    /\ \/ NavToggleClick
       \/ NavOverlayClick
       \/ NavEscape
       \/ \E w \in Widths : NavResize(w)
       \/ NavResizeTimer
    /\ UNCHANGED <<variant, formVars, analyticsLog, toastVars, accVars, tabVars, cardVars,
                   fnVars, envVars, pageVars, debugVars>>

NavSpec == NavInit /\ [][NavNext]_vars

CardsNext ==
    /\ \/ \E v \in SearchValues : SearchInput(v)
       \/ SearchTick
       \/ SearchTimerFire
       \/ \E ch \in Chips : ChipClick(ch)
       \/ \E v \in SortValues : SortChange(v)
    /\ UNCHANGED <<variant, formVars, toastVars, accVars, tabVars, fnVars, envVars, pageVars,
                   debugVars, navVars>>

\* the page holds any of the card sets
CardsInit ==
    /\ variant \in Variants
    /\ present = Elements
    /\ storageMode = "ok"
    /\ themeStorage = <<>>
    /\ accStorage = <<>>
    /\ cardSet \in CardSets
    /\ BootedPage
    /\ InitFn

CardsSpec == CardsInit /\ [][CardsNext]_vars

-----------------------------------------------------------------------------
(* formatPhone and validators: properties *)

\* the digits of the text handed to the function, in order
InputDigits == SelectSeq(fnIn, LAMBDA c : c \in DigitChars)

\* C11: formatPhone keeps only the digits of its input and ignores those
\* beyond the 10th; it returns the raw digits for 0 to 3 digits, (ddd) ddd
\* for 4 to 6 and (ddd) ddd-dddd for 7 to 10.
C11_FormatPhoneShape ==
    fnOp = "formatPhone" =>
      LET n == IF Len(InputDigits) > 10 THEN 10 ELSE Len(InputDigits)
          d == [i \in 1..n |-> InputDigits[i]]
      IN  /\ n <= 3 => fnOut = d
          /\ n \in 4..6 =>
                /\ Len(fnOut) = n + 3
                /\ fnOut[1] = "(" /\ fnOut[5] = ")" /\ fnOut[6] = " "
                /\ \A i \in 1..3 : fnOut[i + 1] = d[i]
                /\ \A i \in 4..n : fnOut[i + 3] = d[i]
          /\ n \in 7..10 =>
                /\ Len(fnOut) = n + 4
                /\ fnOut[1] = "(" /\ fnOut[5] = ")" /\ fnOut[6] = " " /\ fnOut[10] = "-"
                /\ \A i \in 1..3 : fnOut[i + 1] = d[i]
                /\ \A i \in 4..6 : fnOut[i + 3] = d[i]
                /\ \A i \in 7..n : fnOut[i + 4] = d[i]

\* eleven digits with punctuation went in, ten came out formatted
C11_Witness ==
    /\ fnOp = "formatPhone"
    /\ Len(InputDigits) = 11
    /\ Len(fnIn) = 13
    /\ Len(fnOut) = 14

\* the length of the text between its first and last non-blank character
TrimmedLength ==
    LET solid == {i \in 1..Len(fnIn) : fnIn[i] # " "}
    IN  IF solid = {} THEN 0
        ELSE (CHOOSE i \in solid : \A j \in solid : j <= i)
             - (CHOOSE i \in solid : \A j \in solid : i <= j) + 1

\* C12: the message validator reports Required for an empty or all-blank
\* value, TooShort for a trimmed length below 20, TooLong above 1000 and no
\* error otherwise (19 too short, 20 and 1000 valid, 1001 too long).
C12_MessageBoundaries ==
    fnOp = "validators.message" =>
      fnOut = (IF TrimmedLength = 0 THEN "Message is required."
               ELSE IF TrimmedLength < 20 THEN "Message must be at least 20 characters."
               ELSE IF TrimmedLength > 1000 THEN "Message must not exceed 1000 characters."
               ELSE "")

\* a message of exactly 1000 characters between blanks passed
C12_Witness ==
    /\ fnOp = "validators.message"
    /\ TrimmedLength = 1000
    /\ Len(fnIn) = 1000 + 2 * MaxPad
    /\ fnOut = ""

-----------------------------------------------------------------------------
(* Storage and bootstrap: properties *)

Quoted(t) == "\"" \o t \o "\""

\* the theme the stored text denotes in the format the script writes:
\* "none" when nothing is stored, "malformed" when it denotes no theme
StoredThemeName ==
    IF themeStorage = <<>> THEN "none"
    ELSE IF variant = "A"
         THEN IF \E n \in ThemeNames : themeStorage[1] = Quoted(n)
              THEN CHOOSE n \in ThemeNames : themeStorage[1] = Quoted(n)
              ELSE "malformed"
    ELSE IF themeStorage[1] \in ThemeNames THEN themeStorage[1]
    ELSE "malformed"

\* the item the stored text names in the format the script writes, 0 when
\* nothing is stored or the text names no item of the page
StoredItem ==
    LET named == {i \in Items : accStorage = <<IF variant = "A" THEN Quoted(faqId(i))
                                                ELSE String(i - 1)>>}
    IN  IF named = {} THEN 0 ELSE CHOOSE i \in named : TRUE

JustLoaded == pageEvent \in {"init", "reload"}
AllControllers == {InitOrder[k] : k \in 1..Len(InitOrder)}

\* C14: with the store unavailable, throwing on read or write, or holding a
\* malformed value, initialisation and every later theme toggle or accordion
\* click raise no error, the page loads in the default state (light theme,
\* all items closed) and every controller is initialised.
C14_StorageFailureAbsorbed ==
    /\ pageError = "none"
    /\ wired = AllControllers
    /\ (JustLoaded /\ (readThrows \/ StoredThemeName \in {"none", "malformed"}))
          => theme = "light"
    /\ (JustLoaded /\ (readThrows \/ StoredItem = 0))
          => \A i \in Items : accItem[i] = Closed

\* the elements a controller needs before it wires anything
RequiredElements(c) ==
    CASE c = "theme" -> {"theme-toggle"}
      [] c = "backToTop" -> {"back-to-top"}
      [] c = "navbar" -> {"navbar"}
      [] c = "skipToContent" -> {"skip-to-content"}
      [] c = "ctaLinks" -> {"cta"}
      [] c = "search" -> {"search-input"}
      [] c = "filterChips" -> {"filter-chip"}
      [] c = "sortDropdown" -> {"sort-dropdown"}
      [] c = "faq" -> {"faq-item", "faq-button", "faq-panel"}
      [] c = "tabs" -> {"tab-button", "tab-panel"}
      [] c = "contactForm" ->
           IF variant = "A" THEN {"contact-form"}
           ELSE {"contact-form", "input-name", "input-email", "input-message",
                 "submit-button"}
      [] c = "skeleton" -> {"skeleton-loader"}
      [] OTHER -> {}

\* C15: whichever expected elements are absent, the bootstrap completes
\* without error; a controller whose element is missing is skipped and every
\* controller whose elements are present is wired.
C15_BootCompletes ==
    /\ pageError = "none"
    /\ \A c \in AllControllers : c \in wired <=> RequiredElements(c) \subseteq present
    /\ variant = "B" => analyticsLog # <<>>

\* two elements are missing, their controllers are skipped and the theme
\* toggle of the same page works
C15_Witness ==
    /\ present = Elements \ {"tab-panel", "faq-button"}
    /\ "tabs" \notin wired /\ "faq" \notin wired
    /\ pageEvent = "themeClick"
    /\ theme = "dark"

-----------------------------------------------------------------------------
(* Accordion and tabs: properties *)

IsOpen(i) == accItem[i].expanded /\ accItem[i].display = "block"

\* C4: after initialisation with any stored value and after any sequence of
\* trigger clicks, at most one accordion item is open, and no item is
\* half-open (button expanded without its panel shown, or the reverse).
C4_AtMostOneOpen ==
    /\ Cardinality({i \in Items : accItem[i].expanded \/ accItem[i].display = "block"}) <= 1
    /\ \A i \in Items : accItem[i].expanded <=> accItem[i].display = "block"

\* an item was restored or opened by a click while another had been open
C4_Witness ==
    /\ IsOpen(2)
    /\ accStorage # <<>>
    /\ accStorage[1] \in {JSON_stringify(JsString(faqId(2))), faqIndex(2)}

\* C5: after initialisation and after any sequence of tab clicks and key
\* presses exactly one tab is active, it is one of the declared tabs, and
\* its panel is the only visible panel.
C5_ExactlyOneTab ==
    /\ Cardinality({t \in Tabs : tabSelected[t]}) = 1
    /\ \A t \in Tabs : tabPanelShown[t] <=> tabSelected[t]

\* a tab other than the first has been activated
C5_Witness == tabSelected[NumTabs] /\ tabPanelShown[NumTabs] /\ ~tabSelected[1]

\* C17: after every accordion trigger click the value stored under the
\* accordion's key names exactly the item now open, or records absence (null
\* in main.js, no entry in part_001) when no item is open.
C17_StoredNamesOpenItem ==
    pageEvent = "accordionClick" =>
      /\ \A i \in Items : IsOpen(i) <=> StoredItem = i
      /\ (\A i \in Items : ~IsOpen(i))
            => accStorage = (IF variant = "A" THEN <<"null">> ELSE <<>>)

C17_Witness ==
    /\ pageEvent = "accordionClick"
    /\ IsOpen(2)
    /\ StoredItem = 2

\* exactly the stored item is open, fully, and no error was raised
RestoredFromStore ==
    /\ \A i \in Items : IsOpen(i) <=> StoredItem = i
    /\ \A i \in Items : accItem[i] \in {Opened, Closed}
    /\ pageError = "none"

\* C18: on load the accordion opens the item the stored key names when the
\* page has it, so a reload keeps the open item; with the key absent,
\* malformed or naming no item of the page all items start closed; no error.
C18_RestoreOnLoad ==
    /\ [](JustLoaded => RestoredFromStore)
    /\ [][pageEvent' = "reload" => \A i \in Items : IsOpen(i)' <=> IsOpen(i)]_vars

\* the third item is open after a reload
C18_Witness ==
    /\ pageEvent = "reload"
    /\ IsOpen(3)
    /\ StoredItem = 3

PolicyTarget(t, key) ==
    CASE key \in {"ArrowRight", "ArrowDown"} -> IF t = NumTabs THEN 1 ELSE t + 1
      [] key \in {"ArrowLeft", "ArrowUp"} -> IF t = 1 THEN NumTabs ELSE t - 1
      [] key = "Home" -> 1
      [] key = "End" -> NumTabs
      [] OTHER -> 0

\* C20: with focus on a tab, right/down moves to the next tab (wrapping),
\* left/up to the previous (wrapping), Home to the first, End to the last,
\* and the tab moved to becomes the active one.
C20_KeyboardPolicy ==
    [][\A key \in TabKeys :
         (pageEvent' = "key:" \o key /\ PolicyTarget(tabFocus, key) # 0)
           => /\ tabFocus' = PolicyTarget(tabFocus, key)
              /\ tabSelected' = [t \in Tabs |-> t = PolicyTarget(tabFocus, key)]
              /\ tabPanelShown' = tabSelected']_vars

-----------------------------------------------------------------------------
(* Service cards: properties *)

VisibleSeq == shownCards(cardOrder, cardDisplay, cardStyleOrder)

CurrentTags == activeTags(filterArrays, activeFilters, chipActive)
CurrentSort == IF variant = "A" THEN currentSort ELSE sortValue

\* what the engine shows for the current filter state on the cards as loaded
FreshResult ==
    LET r == filterAndSortCards(OriginalOrder, searchValue, CurrentTags, CurrentSort)
    IN  shownCards(r.order, r.display, r.styleOrder)

\* C6: the visible cards and their order are a function of the cards and the
\* filter state only: whatever queries, tags and sort keys were applied
\* before, the engine shows what it shows for that state on the cards as
\* loaded.
C6_FunctionOfState == engineRan => VisibleSeq = FreshResult

\* C7: a card is visible iff (the query is empty or a case-insensitive
\* substring of its title or description) and (no tag is active or at least
\* one active tag is among the card's tags).
C7_VisibleIff ==
    engineRan =>
      LET q == toLowerCase(trim(searchValue))
          tagSet == {CurrentTags[k] : k \in 1..Len(CurrentTags)}
      IN  \A c \in Cards :
            cardDisplay[c] <=>
              /\ \/ q = <<>>
                 \/ \E i \in 1..Len(ServiceCards[c].title) :
                       \E j \in i..Len(ServiceCards[c].title) :
                         toLowerCase(SubSeq(ServiceCards[c].title, i, j)) = q
                 \/ \E i \in 1..Len(ServiceCards[c].description) :
                       \E j \in i..Len(ServiceCards[c].description) :
                         toLowerCase(SubSeq(ServiceCards[c].description, i, j)) = q
              /\ \/ tagSet = {}
                 \/ tagSet \cap {cardTags(c)[k] : k \in 1..Len(cardTags(c))} # {}

\* two tags are active and a query is set: a card with one of the tags shows
C7_Witness ==
    /\ engineRan
    /\ Len(CurrentTags) = 2
    /\ cardDisplay[1] /\ cardDisplay[2] /\ ~cardDisplay[3]
    /\ searchValue = <<"x", " ">>

\* the cards now displayed
VisibleSet == {c \in Cards : cardDisplay[c]}

\* the debounced search for "Pediatrics" has run on a directory, no tag active
PediatricsSearched ==
    /\ cardSet \in {"directory", "directory-named"}
    /\ Cardinality(Cards) = 8
    /\ Cardinality({c \in Cards : ServiceCards[c].title = Pediatric \o <<" ", "C", "a", "r", "e">>}) = 1
    /\ searchValue = Pediatrics
    /\ ~searchTimer
    /\ engineRan
    /\ Len(CurrentTags) = 0

\* C13: searching "Pediatrics" with no active tag over eight cards, exactly
\* one of them titled "Pediatric Care", shows exactly one card once the
\* debounce window has elapsed.
C13_PediatricsShowsOne == PediatricsSearched => Cardinality(VisibleSet) = 1

\* C13 as amended: the search shows exactly the cards whose title or
\* description contains "pediatrics" in any letter case, one card when one
\* card does; the title "Pediatric Care" alone does not contain it.
C13_PediatricsShowsMatches ==
    PediatricsSearched =>
      /\ VisibleSet = {c \in Cards :
                          \/ includes(toLowerCase(ServiceCards[c].title), toLowerCase(Pediatrics))
                          \/ includes(toLowerCase(ServiceCards[c].description),
                                      toLowerCase(Pediatrics))}
      /\ cardSet = "directory-named" => VisibleSet = {1}
      /\ cardSet = "directory" => VisibleSet = {}

C13_Witness == PediatricsSearched /\ cardSet = "directory-named" /\ VisibleSet = {1}

\* record k of a log as a reader sees it: a payload that holds A's
\* activeFilters array shows what that array holds now
recordView(log, arrays, k) ==
    IF variant = "A" /\ log[k].type = "filter_change"
    THEN LET id == CHOOSE n \in 1..Len(arrays) : String(n) = log[k].payload[1][2][2]
         IN  [log[k] EXCEPT !.payload = << <<"filters", arrays[id]>> >>]
    ELSE log[k]

\* C16: the analytics log is append-only: every record present in one state
\* is present in every later state at the same position, with unchanged
\* type, timestamp and payload.
C16_AppendOnly ==
    [][/\ Len(analyticsLog') >= Len(analyticsLog)
       /\ \A k \in 1..Len(analyticsLog) :
             recordView(analyticsLog', filterArrays', k)
               = recordView(analyticsLog, filterArrays, k)]_vars

-----------------------------------------------------------------------------
(* Contact form: properties *)

\* A submission is in flight while its outcome timer is pending.
Submitting == submitTimers # <<>>

FormValid == \A f \in FieldSet : validators(f, fieldValue[f]) = NoError

\* the step just taken ran the timer callback
OutcomeStep == Len(submitTimers') = Len(submitTimers) - 1

\* the step just taken ran the submit listener
SubmitStep == lastEvent' \in {"submit", "submit_invalid"} /\ vars' # vars

Appended(type) ==
    /\ Len(analyticsLog') = Len(analyticsLog) + 1
    /\ SubSeq(analyticsLog', 1, Len(analyticsLog)) = analyticsLog
    /\ analyticsLog'[Len(analyticsLog')].type = type

\* C1: in every reachable state of the form controller at most one simulated
\* submission is in flight (at most one outcome timer is pending).
C1_AtMostOneInFlight == Len(submitTimers) <= 1

\* C2: a submit invoked while a submission is in flight has no observable
\* effect: no analytics record, no second outcome timer, no state transition.
C2_SubmitWhileSubmittingIsNoOp ==
    [][(Submitting /\ SubmitStep) =>
          /\ analyticsLog' = analyticsLog
          /\ submitTimers' = submitTimers
          /\ submitLoading' = submitLoading]_vars

\* C3: the submit control is disabled in every state in which a submission is
\* in flight, also after the user edits or blurs a field during the delay.
C3_DisabledWhileSubmitting == Submitting => submitDisabled

\* C8: whenever no submission is in flight, the submit control is enabled iff
\* every field validator reports no error for the field's current value.
C8_EnabledIffValid == ~Submitting => (~submitDisabled <=> FormValid)

\* C9: when the outcome of a submission resolves as success, which happens
\* less than 1500 ms after the submit, the success banner is shown, all
\* fields are empty, focus is on the name field and exactly one
\* form_submit_success record has been appended to the analytics log.
C9_SuccessOutcome ==
    /\ [](\A i \in 1..Len(submitTimers) :
            submitTimers[i].delay >= 800 /\ submitTimers[i].delay < 1500)
    /\ [][(OutcomeStep /\ lastEvent' = "success") =>
            /\ banner' = "success"
            /\ fieldValue' = EmptyForm
            /\ focus' = "name"
            /\ Appended("form_submit_success")]_vars

\* a success outcome has just resolved for a submission of valid values
C9_Witness ==
    /\ lastEvent = "success"
    /\ banner = "success"
    /\ fieldValue = EmptyForm
    /\ analyticsLog # <<>>
    /\ analyticsLog[Len(analyticsLog)].type = "form_submit_success"
    /\ analyticsLog[Len(analyticsLog)].payload[1][2] = <<"J", "o">>

\* C10: when the outcome of a submission resolves as failure, the error
\* banner is shown, every field value is unchanged, the submit control is
\* enabled again and exactly one form_submit_error record has been appended.
C10_FailureOutcome ==
    [][(OutcomeStep /\ lastEvent' = "failure") =>
          /\ banner' = "error"
          /\ fieldValue' = fieldValue
          /\ ~submitDisabled'
          /\ Appended("form_submit_error")]_vars

\* a failure outcome has just resolved and the valid values are still there
C10_Witness ==
    /\ lastEvent = "failure"
    /\ banner = "error"
    /\ FormValid
    /\ fieldValue["name"] = <<"J", "o">>
    /\ ~submitDisabled
    /\ analyticsLog[Len(analyticsLog)].type = "form_submit_error"

\* the first field, in document order, whose validator rejects its value
FirstInvalidField(values) ==
    IF \E k \in 1..Len(Fields) : validators(Fields[k], values[Fields[k]]) # NoError
    THEN Fields[CHOOSE k \in 1..Len(Fields) :
                  /\ validators(Fields[k], values[Fields[k]]) # NoError
                  /\ \A m \in 1..(k - 1) : validators(Fields[m], values[Fields[m]]) = NoError]
    ELSE "none"

\* C21: a submit attempt while some field is invalid performs no transition:
\* no outcome timer is started, the loading state, the label and the banner
\* are as before, no analytics record is appended, the field values are
\* unchanged, and focus is on the first invalid field afterwards.
C21_InvalidSubmitNoTransition ==
    [][(~FormValid /\ lastEvent' = "submit_invalid") =>
          /\ submitTimers' = submitTimers
          /\ submitLoading' = submitLoading
          /\ submitText' = submitText
          /\ banner' = banner
          /\ analyticsLog' = analyticsLog
          /\ fieldValue' = fieldValue
          /\ focus' = FirstInvalidField(fieldValue)]_vars

\* the submit listener has just refused a form whose message is too short
\* and focus is on the message field, the first invalid one
C21_Witness ==
    /\ lastEvent = "submit_invalid"
    /\ ~FormValid
    /\ focus = "message"
    /\ FirstInvalidField(fieldValue) = "message"

\* the submission state the page shows: a pending outcome timer is a
\* submission in flight; otherwise the banner tells the last outcome, and a
\* success counts until the emptied form is edited
SubmissionState ==
    IF submitTimers # <<>> THEN "Submitting"
    ELSE IF banner = "error" THEN "Error"
    ELSE IF banner = "success" /\ fieldValue = EmptyForm THEN "Success"
    ELSE "Idle"

\* the step just taken started a submission
SubmissionStarted == Len(submitTimers') > Len(submitTimers)

\* C22: the submission starts Idle; a submission is started only from Idle or
\* Error and only by a submit with every field valid; and Submitting is left
\* only to Success or Error.
C22_SubmissionMachine ==
    /\ SubmissionState = "Idle"
    /\ [][SubmissionStarted =>
            /\ SubmissionState \in {"Idle", "Error"}
            /\ FormValid
            /\ lastEvent' = "submit"]_vars
    /\ [][(SubmissionState = "Submitting" /\ SubmissionState' # "Submitting") =>
            SubmissionState' \in {"Success", "Error"}]_vars

\* C23: every submission in flight is eventually resolved, whatever input
\* happens during the delay; the submit control carries the loading class
\* exactly while a submission is in flight; and a submission that resolves
\* puts back the label the control had when that submission began.
C23_ResolvesAndRestores ==
    /\ Submitting ~> ~Submitting
    /\ [](submitLoading <=> Submitting)
    /\ [][SubmissionStarted =>
            submitTimers'[Len(submitTimers')].originalText = submitText]_vars
    /\ [][OutcomeStep =>
            \E i \in 1..Len(submitTimers) :
                /\ submitTimers' = RemoveAt(submitTimers, i)
                /\ submitText' = submitTimers[i].originalText]_vars

\* C24: when a submission resolves as failure, focus is afterwards on the
\* first field whose value is still invalid, if there is one, and on the
\* first field of the form otherwise.
C24_FailureFocus ==
    [][(OutcomeStep /\ lastEvent' = "failure") =>
          focus' = IF FirstInvalidField(fieldValue) # "none"
                   THEN FirstInvalidField(fieldValue)
                   ELSE Fields[1]]_vars

\* C25: when a submission resolves as success, afterwards every field is
\* empty, no field carries aria-invalid="true" or shows an inline message,
\* the submit control is disabled and focus is on the first field.
C25_SuccessResetsFields ==
    [][(OutcomeStep /\ lastEvent' = "success") =>
          /\ fieldValue' = EmptyForm
          /\ \A g \in FieldSet : ariaInvalid'[g] # "true" /\ ~validationMsg'[g].display
          /\ submitDisabled'
          /\ focus' = Fields[1]]_vars

-----------------------------------------------------------------------------
(* Analytics: properties *)

\* the step just taken pushed exactly one record, of the given type, with a
\* timestamp and a payload
AppendedOne(type) ==
    /\ Appended(type)
    /\ DOMAIN analyticsLog'[Len(analyticsLog')] = {"type", "timestamp", "payload"}

\* C26: each theme toggle, call-to-action click, search invocation, chip
\* toggle, sort change and resolved submission appends exactly one record to
\* the analytics log, of the matching type, with a timestamp and a payload.
C26_OneRecordPerInteraction ==
    [][/\ pageEvent' = "themeClick" => AppendedOne("theme_toggle")
       /\ pageEvent' = "ctaClick" => AppendedOne("cta_click")
       /\ (searchTimer /\ ~searchTimer') => AppendedOne("search")
       /\ chipActive' # chipActive => AppendedOne("filter_change")
       /\ sortValue' # sortValue => AppendedOne("sort_change")
       /\ (OutcomeStep /\ lastEvent' = "success") => AppendedOne("form_submit_success")
       /\ (OutcomeStep /\ lastEvent' = "failure") => AppendedOne("form_submit_error")]_vars

-----------------------------------------------------------------------------
(* Accordion and tabs: transitions *)

\* C27: a click on the trigger of a closed item closes the open item, if
\* any, and opens the clicked one; a click on the trigger of the open item
\* closes it and leaves no item open.
C27_ClickTogglesSingleOpen ==
    [][\A i \in Items :
         AccordionClick(i) =>
           IF IsOpen(i)
           THEN \A j \in Items : ~IsOpen(j)'
           ELSE \A j \in Items : IsOpen(j)' <=> j = i]_vars

\* a click on the closed second item closed the first and opened the second
C27_Witness ==
    /\ pageEvent = "accordionClick"
    /\ IsOpen(2)
    /\ ~IsOpen(1)
    /\ StoredItem = 2

\* the tab buttons sequential keyboard navigation stops at: a button is left
\* out only by a negative tabindex
KeyboardReachable == {t \in Tabs : tabTabindex[t] # "-1"}

ActiveTabs == {t \in Tabs : tabSelected[t] /\ tabPanelShown[t]}

\* C28: after a load the first tab is the active one; a click on a tab
\* trigger activates that tab and leaves focus on it; and in every state
\* exactly one tab trigger is reachable by sequential keyboard navigation,
\* with tabindex 0, and it is the active tab, whose panel is shown.
C28_RovingFocus ==
    /\ [](JustLoaded => ActiveTabs = {1})
    /\ [][\A t \in Tabs : TabClick(t) => (ActiveTabs' = {t} /\ tabFocus' = t)]_vars
    /\ [](/\ KeyboardReachable = ActiveTabs
          /\ Cardinality(ActiveTabs) = 1
          /\ \A t \in ActiveTabs : tabTabindex[t] = "0")

-----------------------------------------------------------------------------
(* Search debounce and triggering: properties *)

\* the step just taken ran the debounced search callback
SearchFired == searchTimer /\ ~searchTimer'

LastRecord(log) == log[Len(log)]

\* C29: search keystrokes are debounced on the trailing edge of a 250 ms
\* window: a keystroke runs nothing itself and restarts the one pending
\* timer; the callback runs only 250 ms after the last keystroke, then runs
\* the engine once and appends one search record carrying the text the
\* search box holds at that moment, and leaves no timer pending; no search
\* record is appended in any other step.
C29_TrailingDebounce ==
    /\ [][searchValue' # searchValue =>
            /\ searchTimer' /\ searchElapsed' = 0
            /\ analyticsLog' = analyticsLog
            /\ ~engineRan'
            /\ <<cardOrder, cardDisplay, cardStyleOrder>>' =
                   <<cardOrder, cardDisplay, cardStyleOrder>>]_vars
    /\ [][SearchFired =>
            /\ searchElapsed = DebounceDelay
            /\ AppendedOne("search")
            /\ LastRecord(analyticsLog').payload = << <<"query", toLowerCase(trim(searchValue))>> >>
            /\ engineRan']_vars
    /\ [][(Len(analyticsLog') > Len(analyticsLog) /\ LastRecord(analyticsLog').type = "search")
            => SearchFired]_vars

\* the callback has run once for the text typed last, and no timer is pending
C29_Witness ==
    /\ engineRan
    /\ ~searchTimer
    /\ searchValue = <<"x", " ">>
    /\ Len(analyticsLog) = IF variant = "A" THEN 1 ELSE 2
    /\ LastRecord(analyticsLog).type = "search"
    /\ LastRecord(analyticsLog).payload = << <<"query", <<"x">> >> >>

\* what the engine computes from the state reached by the step just taken
FreshResultNext ==
    LET r == filterAndSortCards(OriginalOrder, searchValue',
                                activeTags(filterArrays', activeFilters', chipActive'),
                                IF variant = "A" THEN currentSort' ELSE sortValue')
    IN  shownCards(r.order, r.display, r.styleOrder)

\* C30: a chip toggle and a sort change run the engine in the same step,
\* also while the search debounce is pending, and the run uses the search
\* text, tags and sort key of that moment; so whenever the engine has run
\* and no debounce timer is pending, the cards shown and their order are
\* what the current search text, tags and sort key give for the cards as
\* loaded.
C30_ImmediateAndCurrent ==
    /\ [][(chipActive' # chipActive \/ sortValue' # sortValue) =>
            /\ engineRan'
            /\ searchTimer' = searchTimer /\ searchElapsed' = searchElapsed
            /\ {c \in Cards : cardDisplay'[c]} =
                   {FreshResultNext[k] : k \in 1..Len(FreshResultNext)}]_vars
    /\ []((engineRan /\ ~searchTimer) => VisibleSeq = FreshResult)

-----------------------------------------------------------------------------
(* Sort order and filter chips: properties *)

\* the order the sort key puts two cards in: negative when a comes first,
\* 0 when they compare equal; titles are compared without regard to case
keyCompare(a, b) ==
    IF CurrentSort = "alphabetical"
    THEN compareKeys([i \in 1..Len(ServiceCards[a].title) |-> CharRank(ServiceCards[a].title[i])],
                     [i \in 1..Len(ServiceCards[b].title) |-> CharRank(ServiceCards[b].title[i])])
    ELSE ServiceCards[b].popularity - ServiceCards[a].popularity

\* C31: after every engine run the visible cards are in the order of the
\* current sort key (title without regard to case, or descending
\* popularity), and cards that compare equal are in their original relative
\* order, whatever was sorted before.
C31_SortedStable ==
    engineRan =>
      \A i \in 1..Len(VisibleSeq) : \A j \in (i + 1)..Len(VisibleSeq) :
         \/ keyCompare(VisibleSeq[i], VisibleSeq[j]) < 0
         \/ /\ keyCompare(VisibleSeq[i], VisibleSeq[j]) = 0
            /\ VisibleSeq[i] < VisibleSeq[j]

\* the tag a chip stands for, as the filter reads it
chipTag(ch) ==
    IF variant = "A" THEN FilterChips[ch].filter
    ELSE toLowerCase(trim(FilterChips[ch].text))

\* the active tags after the step just taken
NextTags == activeTags(filterArrays', activeFilters', chipActive')

\* C32: a chip's aria-pressed is true iff its tag is among the active tags
\* the filter uses; the active tags never hold a tag twice; and a click on a
\* chip flips whether its tag is among them.
C32_ChipsInStep ==
    /\ [](\A ch \in Chips : chipPressed[ch] <=> Member(CurrentTags, chipTag(ch)))
    /\ [](\A i, j \in 1..Len(CurrentTags) : CurrentTags[i] = CurrentTags[j] => i = j)
    /\ [][\A ch \in Chips :
            chipActive'[ch] # chipActive[ch] =>
              (Member(NextTags, chipTag(ch)) <=> ~Member(CurrentTags, chipTag(ch)))]_vars

\* two chips were pressed and the first released again: only the second tag
\* is active
C32_Witness ==
    /\ variant = "A"
    /\ Len(analyticsLog) = 3
    /\ chipPressed = <<FALSE, TRUE>>
    /\ CurrentTags = <<chipTag(2)>>

-----------------------------------------------------------------------------
(* Toasts: properties *)

\* the toast the last show call put on screen is on screen with its countdown running
ShownWithTimer(toasts, toast, timeoutSet, timers, message, type) ==
    CASE variant = "A" ->
           /\ Len(toasts) > 0
           /\ toasts[Len(toasts)] = [message |-> message, type |-> type,
                                     attached |-> TRUE, timer |-> TRUE]
      [] variant = "B" ->
           /\ toast = [message |-> message, type |-> type, visible |-> TRUE,
                       display |-> "block"]
           /\ timeoutSet
      [] variant = "C" ->
           /\ toast.message = message /\ toast.type = type /\ toast.visible
           /\ timers > 0

\* C33: every show call puts its toast on screen and starts a countdown for
\* it; when a countdown expires its toast is dismissed; a manual dismissal
\* takes the toast off at once and leaves no countdown pending for it.
C33_ShowExpireDismiss ==
    [][/\ \A c \in ToastCalls :
            ToastShow(c[1], c[2]) =>
               ShownWithTimer(toastsA', toastB', toastTimeout', dismissTimers', c[1], c[2])
       /\ ToastExpire =>
            CASE variant = "A" ->
                   \A i \in 1..Len(toastsA) :
                      (toastsA[i].timer /\ ~toastsA'[i].timer) => ~toastsA'[i].attached
              [] OTHER -> ~toastB'.visible
       /\ ToastClose =>
            CASE variant = "A" ->
                   \A i \in 1..Len(toastsA) :
                      (toastsA[i].attached /\ ~toastsA'[i].attached) => ~toastsA'[i].timer
              [] variant = "B" -> ~toastB'.visible /\ ~toastTimeout'
              [] variant = "C" ->
                   /\ ~toastB'.visible
                   /\ dismissTimers > 0 => dismissTimers' = dismissTimers - 1]_vars

\* C34: a toast on screen leaves it only by its own countdown or by a manual
\* dismissal: no countdown of an earlier show call and no delayed hide of an
\* earlier dismissal hides a toast shown after it.
C34_NoStaleHide ==
    [][/\ ToastHideDelay => ~toastB.visible
       /\ (ToastExpire /\ variant = "C" /\ toastB.visible) => dismissTimers = 1
       /\ variant = "A" =>
            \A i \in 1..Len(toastsA) :
               (toastsA[i].attached /\ ~toastsA'[i].attached) =>
                  \/ ToastClose
                  \/ ToastExpire /\ toastsA[i].timer /\ ~toastsA'[i].timer]_vars

-----------------------------------------------------------------------------
(* Debug panel: properties *)

\* C35: a toggle that opens the debug panel makes it list exactly the last
\* min(20, n) records of the n-record log, the newest first; toggling and
\* closing the panel leave the log as it was.
C35_RecentNewestFirst ==
    [][/\ (DebugToggle /\ debugPanel'.display = "block") =>
            LET n == Len(analyticsLog)
                shown == IF n < 20 THEN n ELSE 20
            IN  /\ debugPanel'.rendered
                /\ Len(debugPanel'.content) = shown
                /\ \A k \in 1..shown :
                      debugPanel'.content[k] =
                         <<analyticsLog[n - k + 1].type, analyticsLog[n - k + 1].timestamp,
                           analyticsLog[n - k + 1].payload>>
       /\ (DebugToggle \/ DebugCloseClick) => analyticsLog' = analyticsLog]_vars

\* the panel is open on a log of 21 records and lists 20, from the 21st down to the 2nd
C35_Witness ==
    /\ debugPanel.display = "block"
    /\ pageEvent = "debugToggle"
    /\ Len(analyticsLog) = 21
    /\ Len(debugPanel.content) = 20
    /\ debugPanel.content[1][3] = analyticsLog[21].payload
    /\ debugPanel.content[20][3] = analyticsLog[2].payload
    /\ analyticsLog[1].payload # analyticsLog[2].payload

-----------------------------------------------------------------------------
(* Theme: properties *)

\* C36: on a page whose theme toggle is wired the theme is always light or
\* dark; it is light after a load that finds nothing stored or a stored value
\* that names neither; every toggle click moves it to the other of the two.
C36_ThemeLightOrDark ==
    /\ []("theme" \in wired => theme \in ThemeNames)
    /\ []((JustLoaded /\ "theme" \in wired /\ StoredThemeName \in {"none", "malformed"})
             => theme = "light")
    /\ [][ThemeToggleClick => (theme' \in ThemeNames /\ theme' # theme)]_vars

\* C37: after every theme toggle click the toggle's aria-pressed is "true" or
\* "false" and tells the theme the page now has: "true" exactly on dark.
C37_PressedInStep ==
    [][ThemeToggleClick =>
          /\ themePressed' \in {"true", "false"}
          /\ themePressed' = "true" <=> theme' = "dark"]_vars

-----------------------------------------------------------------------------
(* Phone field: properties *)

\* the fields other than the phone pass their validators
OthersValid(values) ==
    \A g \in FieldSet \ {"phone"} : validators(g, values[g]) = NoError

\* C38: after every input event on the phone field the field is marked valid
\* exactly when the value it now holds, the formatted one, is empty or has
\* ten digits; with an empty phone the button and the submit listener go by
\* the other fields alone.
C38_PhoneFormattedThenValidated ==
    [][/\ \A typed \in PhoneEvents :
            InputHandler("phone", typed) =>
               /\ ariaInvalid'["phone"] \in {"true", "false"}
               /\ ariaInvalid'["phone"] = "false" <=>
                     \/ fieldValue'["phone"] = <<>>
                     \/ Cardinality({k \in 1..Len(fieldValue'["phone"]) :
                                       IsDigit(fieldValue'["phone"][k])}) = 10
       /\ \A f \in FieldSet : \A typed \in PhoneTyped(f) :
            (InputHandler(f, typed) /\ fieldValue'["phone"] = <<>>) =>
               (submitDisabled' <=> ~OthersValid(fieldValue'))
       /\ ((\E r \in RandomDraws : SubmitHandler(r[1], r[2]))
             /\ fieldValue["phone"] = <<>> /\ OthersValid(fieldValue)) =>
               lastEvent' = "submit"]_vars

\* ten digits were typed into the phone field: it holds them formatted and is valid
C38_Witness ==
    /\ lastEvent = "edit" /\ focus = "phone"
    /\ fieldValue["phone"] = <<"(", "5", "5", "5", ")", " ", "1", "2", "3", "-",
                               "4", "5", "6", "7">>
    /\ ariaInvalid["phone"] = "false"

-----------------------------------------------------------------------------
(* Submission record: properties *)

\* C39: the name and the email of every form_submit_success record pass
\* their validators, as the values did that were validated when the
\* submission started.
C39_SuccessPayloadValidated ==
    [][\A i \in 1..Len(submitTimers) :
          (OutcomeTimer(i) /\ lastEvent' = "success") =>
             LET payload == analyticsLog'[Len(analyticsLog')].payload
             IN  /\ analyticsLog'[Len(analyticsLog')].type = "form_submit_success"
                 /\ validators_name(payload[1][2]) = NoError
                 /\ validators_email(payload[2][2]) = NoError]_vars

-----------------------------------------------------------------------------
(* Mobile navigation: properties *)

\* C40: the four signs of an open menu always agree: aria-expanded "true",
\* aria-hidden "false", the class is-open, the page scroll locked; Escape
\* and a click on the overlay never open the menu; when the resize timer
\* fires at desktop width the menu is closed.
C40_NavConsistent ==
    /\ [](/\ nav.expanded = "true" <=> nav.hidden = "false"
          /\ nav.hidden = "false" <=> nav.open
          /\ nav.open <=> nav.overflow = "hidden")
    /\ [][(NavEscape \/ NavOverlayClick) =>
             ((nav'.expanded = "true" \/ nav'.open) => (nav.expanded = "true" /\ nav.open))]_vars
    /\ [][(NavResizeTimer /\ innerWidth >= Breakpoint) =>
             /\ nav'.expanded = "false" /\ nav'.hidden = "true"
             /\ ~nav'.open /\ nav'.overflow = ""]_vars

\* the toggle has opened a menu whose markup carried neither attribute, at
\* desktop width with the resize timer pending
C40_Witness ==
    /\ navEvent = "toggle" /\ resizeTimer /\ innerWidth >= Breakpoint
    /\ nav.expanded = "true" /\ nav.hidden = "false" /\ nav.open
    /\ nav.overflow = "hidden" /\ nav.overlayVisible

====
